---- MODULE Spec2Model ----
(***************************************************************************)
(* NanoDate: the date engine (fast ISO parser, calendar validity checker,  *)
(* immutable arithmetic and boundary snapping, strict mode and the         *)
(* process-wide configuration), modelled as a state machine over a heap of *)
(* NanoDate targets, the global configuration and the log of the calls     *)
(* made so far.                                                            *)
(*                                                                         *)
(* Representation of a time value (the number a Date holds).  TLC's        *)
(* integers are 32 bits wide and an epoch-millisecond count is not, so a   *)
(* finite time value t is held exactly as the pair                         *)
(*        day = floor(t / MS_PER_DAY),   ms = t - day * MS_PER_DAY         *)
(* with 0 <= ms < MS_PER_DAY, and NaN (Invalid Date) as nan = TRUE.  Two   *)
(* time values are the same number iff the records are equal.              *)
(*                                                                         *)
(* A text is a sequence of one-character strings.  `undefined' values are  *)
(* Undef (for _input) and "undefined" (for a locale).                      *)
(*                                                                         *)
(* A value the code computes once and reads several times (a regex match,  *)
(* the fields of a Date) is passed on as an operator argument: f(x) ==      *)
(* fWith(x, g(x)).                                                         *)
(***************************************************************************)
EXTENDS Integers, Sequences, FiniteSets, TLC

VARIABLES host, globalConfig, objs, calls, arg, caches, batches, durs

vars == <<host, globalConfig, objs, calls, arg, caches, batches, durs>>

(***************************************************************************)
(* Millisecond constants.                                                  *)
(***************************************************************************)
MS_PER_SECOND == 1000
MS_PER_MINUTE == 60000
MS_PER_HOUR == 3600000
MS_PER_DAY == 86400000
MS_PER_WEEK == 604800000

(***************************************************************************)
(* Time values.                                                            *)
(***************************************************************************)
NaN == [nan |-> TRUE, day |-> 0, ms |-> 0]

\* the number day * MS_PER_DAY + ms, for any integer ms, in normal form
TimeValue(day, ms) ==
    [nan |-> FALSE, day |-> day + (ms \div MS_PER_DAY), ms |-> ms % MS_PER_DAY]

\* t + amount * unitMs, computed without leaving 32 bits:
\* unitMs = q * MS_PER_DAY + r
PlusMs(t, amount, unitMs) ==
    IF t.nan THEN NaN
    ELSE TimeValue(t.day + amount * (unitMs \div MS_PER_DAY),
                   t.ms + amount * (unitMs % MS_PER_DAY))

\* a < b for finite time values
Earlier(a, b) == a.day < b.day \/ (a.day = b.day /\ a.ms < b.ms)

IsNegative(t) == t.day < 0

\* JavaScript's ts % unitMs for unitMs dividing MS_PER_DAY: the remainder
\* takes the sign of the dividend
JsRemainder(t, unitMs) ==
    LET r == t.ms % unitMs
    IN  IF IsNegative(t) /\ r # 0 THEN r - unitMs ELSE r

(***************************************************************************)
(* The host's Date: the proleptic Gregorian calendar of ECMAScript         *)
(* (MakeDay, YearFromTime, MonthFromTime, DateFromTime, WeekDay), and the   *)
(* host's local time zone, a fixed offset of host.tz minutes east of UTC.  *)
(***************************************************************************)
\* day number of year-month-date, month in 1..12
DaysFromCivil(y, m, d) ==
    LET yy == IF m <= 2 THEN y - 1 ELSE y
        era == yy \div 400
        yoe == yy - era * 400
        mp == IF m > 2 THEN m - 3 ELSE m + 9
        doy == ((153 * mp + 2) \div 5) + d - 1
        doe == yoe * 365 + (yoe \div 4) - (yoe \div 100) + doy
    IN  era * 146097 + doe - 719468

\* year, month (0..11), date of a day number
CivilOfMonth(era, yoe, doy, mp) ==
    [year |-> yoe + era * 400 + (IF mp >= 10 THEN 1 ELSE 0),
     month |-> (IF mp < 10 THEN mp + 3 ELSE mp - 9) - 1,
     date |-> doy - ((153 * mp + 2) \div 5) + 1]

CivilOfYear(era, doe, yoe) ==
    CivilOfMonth(era, yoe, doe - (365 * yoe + (yoe \div 4) - (yoe \div 100)),
                 (5 * (doe - (365 * yoe + (yoe \div 4) - (yoe \div 100))) + 2) \div 153)

CivilOfEra(era, doe) ==
    CivilOfYear(era, doe,
                (doe - (doe \div 1460) + (doe \div 36524) - (doe \div 146096)) \div 365)

CivilFromDays(z) ==
    CivilOfEra((z + 719468) \div 146097, (z + 719468) % 146097)

\* ECMAScript MakeDay: month is 0-based and may be any integer, date any
\* integer (out-of-range values roll over)
MakeDay(year, month, date) ==
    DaysFromCivil(year + (month \div 12), (month % 12) + 1, 1) + date - 1

MakeTime(hour, minute, second, ms) ==
    hour * MS_PER_HOUR + minute * MS_PER_MINUTE + second * MS_PER_SECOND + ms

\* the year a Date constructor or Date.UTC uses: 0..99 means 1900..1999
FullYearOf(year) == IF year >= 0 /\ year <= 99 THEN 1900 + year ELSE year

\* Date.UTC(year, month, day, hour, minute, second, ms)
DateUTC(year, month, date, hour, minute, second, ms) ==
    TimeValue(MakeDay(FullYearOf(year), month, date),
              MakeTime(hour, minute, second, ms))

\* the UTC time value of a local day number and a local time within the day
FromLocal(h, lday, ltime) == TimeValue(lday, ltime - h.tz * MS_PER_MINUTE)

\* new Date(year, month, day, hour, minute, second, ms): local time
NewDateLocal(h, year, month, date, hour, minute, second, ms) ==
    FromLocal(h, MakeDay(FullYearOf(year), month, date),
              MakeTime(hour, minute, second, ms))

\* the local calendar fields of a finite time value: getFullYear, getMonth,
\* getDate, getDay, getHours, getMinutes, getSeconds, getMilliseconds;
\* lday and time are the local day number and the time within that day
FieldsOf(lt, c) ==
    [year |-> c.year, month |-> c.month, date |-> c.date,
     day |-> (lt.day + 4) % 7,
     hours |-> lt.ms \div MS_PER_HOUR,
     minutes |-> (lt.ms \div MS_PER_MINUTE) % 60,
     seconds |-> (lt.ms \div MS_PER_SECOND) % 60,
     milliseconds |-> lt.ms % MS_PER_SECOND,
     lday |-> lt.day, time |-> lt.ms]

LocalTimeFields(lt) == FieldsOf(lt, CivilFromDays(lt.day))

LocalFields(h, t) == LocalTimeFields(TimeValue(t.day, t.ms + h.tz * MS_PER_MINUTE))

\* d.setFullYear(year) / d.setMonth(month, date) / d.setDate(date): one
\* MakeDay over the local fields, the local time within the day kept
SetLocalDate(h, t, year, month, date) ==
    IF t.nan THEN NaN
    ELSE FromLocal(h, MakeDay(year, month, date), LocalFields(h, t).time)

\* d.setHours/.setMinutes/.setSeconds/.setMilliseconds: the local day kept,
\* the time within the day rebuilt (out-of-range values roll over)
SetLocalTime(h, t, hour, minute, second, ms) ==
    IF t.nan THEN NaN
    ELSE FromLocal(h, LocalFields(h, t).lday, MakeTime(hour, minute, second, ms))

(***************************************************************************)
(* Texts.                                                                  *)
(***************************************************************************)
Digits == {"0", "1", "2", "3", "4", "5", "6", "7", "8", "9"}

DigitChars == <<"0", "1", "2", "3", "4", "5", "6", "7", "8", "9">>

DigitValue(c) == (CHOOSE i \in 1..10 : DigitChars[i] = c) - 1

\* s[i .. i+n-1] exists and is all digits (\d{n} at offset i)
DigitsAt(s, i, n) == i + n - 1 <= Len(s) /\ \A j \in i..(i + n - 1) : s[j] \in Digits

CharAt(s, i, c) == i <= Len(s) /\ s[i] = c

\* the number written by the n digits at offset i (unary + / parseInt)
RECURSIVE NumberAt(_, _, _)
NumberAt(s, i, n) ==
    IF n = 0 THEN 0 ELSE 10 * NumberAt(s, i, n - 1) + DigitValue(s[i + n - 1])

Pow10(n) == IF n = 0 THEN 1 ELSE IF n = 1 THEN 10 ELSE 100

(***************************************************************************)
(* ISO_REGEX.exec(str):                                                    *)
(*   ^(\d{4})-(\d{2})-(\d{2})                                              *)
(*    (?:T(\d{2}):(\d{2})(?::(\d{2})(?:\.(\d{1,3}))?)?)?                   *)
(*    (?:Z|([+-])(\d{2}):?(\d{2}))?$                                       *)
(* The optional groups begin with characters (T, :, .) that nothing after  *)
(* them may begin with, so the greedy left-to-right scan below finds the   *)
(* match whenever there is one.  g1..g10 are the capture groups; a group   *)
(* that did not take part is has* = FALSE (sign = "" for g8..g10).         *)
(***************************************************************************)
NoMatch ==
    [ok |-> FALSE, g1 |-> 0, g2 |-> 0, g3 |-> 0, hasTime |-> FALSE, g4 |-> 0,
     g5 |-> 0, hasSecond |-> FALSE, g6 |-> 0, fracLen |-> 0, g7 |-> 0,
     hasZ |-> FALSE, sign |-> "", g9 |-> 0, g10 |-> 0]

\* ^(\d{4})-(\d{2})-(\d{2})
DateGroups(s) ==
    /\ DigitsAt(s, 1, 4) /\ CharAt(s, 5, "-")
    /\ DigitsAt(s, 6, 2) /\ CharAt(s, 8, "-") /\ DigitsAt(s, 9, 2)

\* T(\d{2}):(\d{2}) at offset 11
TimeGroups(s) ==
    /\ CharAt(s, 11, "T") /\ DigitsAt(s, 12, 2)
    /\ CharAt(s, 14, ":") /\ DigitsAt(s, 15, 2)

\* :(\d{2}) at offset 17
SecondGroup(s) == TimeGroups(s) /\ CharAt(s, 17, ":") /\ DigitsAt(s, 18, 2)

\* the length of \.(\d{1,3}) at offset 20, greedy; 0 when it does not match
FractionLength(s) ==
    IF SecondGroup(s) /\ CharAt(s, 20, ".") /\ DigitsAt(s, 21, 1)
    THEN IF DigitsAt(s, 21, 3) THEN 3 ELSE IF DigitsAt(s, 21, 2) THEN 2 ELSE 1
    ELSE 0

\* the offset at which (?:Z|([+-])(\d{2}):?(\d{2}))?$ is tried
ZoneStart(hasTime, hasSecond, fracLen) ==
    IF ~hasTime THEN 11
    ELSE IF ~hasSecond THEN 17
    ELSE IF fracLen = 0 THEN 20 ELSE 21 + fracLen

Signed(s, p) == (CharAt(s, p, "+") \/ CharAt(s, p, "-")) /\ DigitsAt(s, p + 1, 2)

\* ([+-])(\d{2}):(\d{2})$ and ([+-])(\d{2})(\d{2})$ at offset p
ColonOffset(s, p) ==
    Signed(s, p) /\ CharAt(s, p + 3, ":") /\ DigitsAt(s, p + 4, 2) /\ Len(s) = p + 5

PlainOffset(s, p) == Signed(s, p) /\ DigitsAt(s, p + 3, 2) /\ Len(s) = p + 4

IsoGroups(s, hasTime, hasSecond, fracLen, p, hasZ, colon, plain) ==
    IF ~(p = Len(s) + 1 \/ hasZ \/ colon \/ plain) THEN NoMatch
    ELSE [ok |-> TRUE,
          g1 |-> NumberAt(s, 1, 4), g2 |-> NumberAt(s, 6, 2), g3 |-> NumberAt(s, 9, 2),
          hasTime |-> hasTime,
          g4 |-> IF hasTime THEN NumberAt(s, 12, 2) ELSE 0,
          g5 |-> IF hasTime THEN NumberAt(s, 15, 2) ELSE 0,
          hasSecond |-> hasSecond,
          g6 |-> IF hasSecond THEN NumberAt(s, 18, 2) ELSE 0,
          fracLen |-> fracLen,
          g7 |-> IF fracLen > 0 THEN NumberAt(s, 21, fracLen) ELSE 0,
          hasZ |-> hasZ,
          sign |-> IF colon \/ plain THEN s[p] ELSE "",
          g9 |-> IF colon \/ plain THEN NumberAt(s, p + 1, 2) ELSE 0,
          g10 |-> IF colon THEN NumberAt(s, p + 4, 2)
                  ELSE IF plain THEN NumberAt(s, p + 3, 2) ELSE 0]

IsoZone(s, hasTime, hasSecond, fracLen, p) ==
    IsoGroups(s, hasTime, hasSecond, fracLen, p,
              CharAt(s, p, "Z") /\ Len(s) = p, ColonOffset(s, p), PlainOffset(s, p))

IsoTime(s, hasTime, hasSecond, fracLen) ==
    IsoZone(s, hasTime, hasSecond, fracLen, ZoneStart(hasTime, hasSecond, fracLen))

IsoRegexExec(s) ==
    IF ~DateGroups(s) THEN NoMatch
    ELSE IsoTime(s, TimeGroups(s), SecondGroup(s), FractionLength(s))

\* the time value offsetSign * (offsetHours * 60 + offsetMinutes) * 60000
\* added to timestamp
PlusOffset(t, offsetSign, offsetHours, offsetMinutes) ==
    PlusMs(t, offsetSign * (offsetHours * 60 + offsetMinutes), MS_PER_MINUTE)

\* fastParseISO after a successful match
FastParseMatch(h, match) ==
    IF match.hasZ \/ match.sign # ""
    THEN IF match.sign # ""
         THEN PlusOffset(DateUTC(match.g1, match.g2 - 1, match.g3, match.g4, match.g5,
                                 match.g6, match.g7 * Pow10(3 - match.fracLen)),
                         IF match.sign = "+" THEN -1 ELSE 1, match.g9, match.g10)
         ELSE DateUTC(match.g1, match.g2 - 1, match.g3, match.g4, match.g5,
                      match.g6, match.g7 * Pow10(3 - match.fracLen))
    ELSE NewDateLocal(h, match.g1, match.g2 - 1, match.g3, match.g4, match.g5,
                      match.g6, match.g7 * Pow10(3 - match.fracLen))

FastParseExec(h, match) ==
    IF ~match.ok THEN [null |-> TRUE, d |-> NaN]
    ELSE [null |-> FALSE, d |-> FastParseMatch(h, match)]

\* fastParseISO(str): [null |-> TRUE] when it returns null, else the Date
fastParseISO(h, str) ==
    IF Len(str) < 10 THEN [null |-> TRUE, d |-> NaN]
    ELSE FastParseExec(h, IsoRegexExec(str))

(***************************************************************************)
(* new Date(string): the host's own parser, for the texts of the ISO shape *)
(* above.  A date-only text is UTC, a date-time text without Z or offset   *)
(* is local time.  A field out of range gives Invalid Date; engines differ *)
(* on a day of month in 1..31 that the month does not have: a lenient host *)
(* (host.lenient) rolls it over, the others give Invalid Date.  Any other  *)
(* text modelled here is one no engine parses.                             *)
(***************************************************************************)
HostDaysInMonth(year, month) == MakeDay(year, month + 1, 1) - MakeDay(year, month, 1)

NativeInRange(h, m) ==
    /\ m.g2 >= 1 /\ m.g2 <= 12 /\ m.g3 >= 1
    /\ m.g3 <= (IF h.lenient THEN 31 ELSE HostDaysInMonth(m.g1, m.g2 - 1))
    /\ \/ m.g4 <= 23
       \/ (m.g4 = 24 /\ m.g5 = 0 /\ m.g6 = 0 /\ m.g7 = 0)
    /\ m.g5 <= 59 /\ m.g6 <= 59 /\ m.g9 <= 23 /\ m.g10 <= 59

NativeTime(h, m, lday, ltime) ==
    IF m.sign # ""
    THEN PlusOffset(TimeValue(lday, ltime), IF m.sign = "+" THEN -1 ELSE 1, m.g9, m.g10)
    ELSE IF m.hasZ \/ ~m.hasTime THEN TimeValue(lday, ltime)
    ELSE FromLocal(h, lday, ltime)

NativeParseMatch(h, m) ==
    IF ~m.ok THEN NaN
    ELSE IF ~NativeInRange(h, m) THEN NaN
    ELSE NativeTime(h, m, MakeDay(m.g1, m.g2 - 1, m.g3),
                    MakeTime(m.g4, m.g5, m.g6, m.g7 * Pow10(3 - m.fracLen)))

NativeParse(h, str) == NativeParseMatch(h, IsoRegexExec(str))

(***************************************************************************)
(* NanoDate targets { _d, _l, _input } and the values around them.         *)
(***************************************************************************)
Undef == [defined |-> FALSE, text |-> <<>>]

Str(text) == [defined |-> TRUE, text |-> text]

Target(d, l, input) == [d |-> d, l |-> l, input |-> input]

NoError == [name |-> "", input |-> Undef]

\* new InvalidDateError(input)
InvalidDateError(input) == [name |-> "InvalidDateError", input |-> input]

\* the first argument of nano() and strict(), by its JavaScript type
StringInput(text) ==
    [type |-> "string", text |-> text, d |-> NaN, l |-> "undefined", input |-> Undef]

NumberInput(t) ==
    [type |-> "number", text |-> <<>>, d |-> t, l |-> "undefined", input |-> Undef]

DateInput(t) ==
    [type |-> "Date", text |-> <<>>, d |-> t, l |-> "undefined", input |-> Undef]

NanoInput(ctx) ==
    [type |-> "NanoDate", text |-> <<>>, d |-> ctx.d, l |-> ctx.l, input |-> ctx.input]

\* a JavaScript-falsy locale argument
Falsy(locale) == locale = "undefined" \/ locale = ""

(***************************************************************************)
(* utils.js: the calendar validity checker.                                *)
(***************************************************************************)
DAYS_IN_MONTH == <<31, 28, 31, 30, 31, 30, 31, 31, 30, 31, 30, 31>>

\* (year & 3) === 0 && ((year % 100) !== 0 || (year % 400) === 0), year >= 0
isLeapYearNum(year) == (year % 4) = 0 /\ ((year % 100) # 0 \/ (year % 400) = 0)

isCalendarValid(year, month, day) ==
    IF month < 1 \/ month > 12 \/ day < 1 THEN FALSE
    ELSE LET maxDay == IF month = 2 /\ isLeapYearNum(year) THEN 29
                       ELSE DAYS_IN_MONTH[month]
         IN  day <= maxDay

NullDate == [null |-> TRUE, year |-> 0, month |-> 0, day |-> 0]

\* /^(\d{1,2})\/(\d{1,2})\/(\d{4})/ with n1 and n2 digits in the first two
\* groups, read as MM/DD/YYYY
SlashMatch(str, n1, n2) ==
    IF /\ DigitsAt(str, 1, 1) /\ CharAt(str, n1 + 1, "/")
       /\ DigitsAt(str, n1 + 2, 1) /\ CharAt(str, n1 + n2 + 2, "/")
       /\ DigitsAt(str, n1 + n2 + 3, 4)
    THEN [null |-> FALSE, year |-> NumberAt(str, n1 + n2 + 3, 4),
          month |-> NumberAt(str, 1, n1), day |-> NumberAt(str, n1 + 2, n2)]
    ELSE NullDate

SlashSecond(str, n1) == SlashMatch(str, n1, IF DigitsAt(str, n1 + 2, 2) THEN 2 ELSE 1)

\* parseDateString(str): /^(\d{4})-(\d{2})-(\d{2})/, then the slash form;
\* null otherwise
parseDateString(str) ==
    IF DateGroups(str)
    THEN [null |-> FALSE, year |-> NumberAt(str, 1, 4),
          month |-> NumberAt(str, 6, 2), day |-> NumberAt(str, 9, 2)]
    ELSE SlashSecond(str, IF DigitsAt(str, 1, 2) THEN 2 ELSE 1)

\* isValid once the Date is known to be valid and the input to be a string
ValidAgainst(parsed, d) ==
    IF parsed.null THEN TRUE
    ELSE IF ~(/\ d.year = parsed.year
              /\ d.month + 1 = parsed.month
              /\ d.date = parsed.day)
    THEN FALSE
    ELSE isCalendarValid(parsed.year, parsed.month, parsed.day)

isValid(h, ctx) ==
    IF ctx.d.nan THEN FALSE
    ELSE IF ctx.input.defined
    THEN ValidAgainst(parseDateString(ctx.input.text), LocalFields(h, ctx.d))
    ELSE TRUE

(***************************************************************************)
(* index.js: the factory, strict mode and the global configuration.        *)
(***************************************************************************)
DefaultConfig == [strict |-> FALSE, locale |-> "null", timezone |-> "null"]

Returned(ctx) == [threw |-> FALSE, error |-> NoError, target |-> ctx]

Thrown(err, ctx) == [threw |-> TRUE, error |-> err, target |-> ctx]

\* d = fastParseISO(input); if (!d) d = new Date(input)
OrNative(h, text, parsed) == IF parsed.null THEN NativeParse(h, text) ELSE parsed.d

\* the strict-mode check of nano() on the target it is about to wrap
NanoCheck(h, cfg, ctx) ==
    IF cfg.strict /\ ctx.input.defined /\ ~isValid(h, ctx)
    THEN Thrown(InvalidDateError(ctx.input), ctx)
    ELSE Returned(ctx)

\* nano(input, locale) under the global configuration cfg
nano(h, cfg, input, locale) ==
    NanoCheck(h, cfg,
        Target(IF input.type = "string"
               THEN OrNative(h, input.text, fastParseISO(h, input.text))
               ELSE input.d,
               IF input.type = "NanoDate" /\ Falsy(locale) THEN input.l ELSE locale,
               IF input.type = "string" THEN Str(input.text)
               ELSE IF input.type = "NanoDate" THEN input.input
               ELSE Undef))

StrictCheck(h, ctx) ==
    IF ~isValid(h, ctx) THEN Thrown(InvalidDateError(ctx.input), ctx)
    ELSE Returned(ctx)

\* strict(input, locale): new Date(input), then isValid; the error carries
\* the input (a string input is the only kind modelled as an error input)
strict(h, input, locale) ==
    StrictCheck(h, Target(IF input.type = "string" THEN NativeParse(h, input.text)
                          ELSE input.d,
                          locale,
                          IF input.type = "string" THEN Str(input.text) ELSE Undef))

\* the options object of config(): an absent (undefined) key is has* = FALSE
NoOptions ==
    [hasStrict |-> FALSE, strict |-> FALSE, hasLocale |-> FALSE, locale |-> "null",
     hasTimezone |-> FALSE, timezone |-> "null"]

config(cfg, options) ==
    [strict |-> IF options.hasStrict THEN options.strict ELSE cfg.strict,
     locale |-> IF options.hasLocale THEN options.locale ELSE cfg.locale,
     timezone |-> IF options.hasTimezone THEN options.timezone ELSE cfg.timezone]

resetConfig == DefaultConfig

(***************************************************************************)
(* manipulate.js: the arithmetic engine.  Every operation returns what the *)
(* factory returns for the Date it built (ret) and leaves the receiver as  *)
(* self: the code works on a copy of ctx._d (new Date(timestamp)) or only  *)
(* reads it.                                                               *)
(***************************************************************************)
UNIT_MAP ==
    [y |-> "year", year |-> "year", years |-> "year",
     Q |-> "quarter", quarter |-> "quarter", quarters |-> "quarter",
     M |-> "month", month |-> "month", months |-> "month",
     w |-> "week", week |-> "week", weeks |-> "week",
     isoWeek |-> "isoWeek", isoWeeks |-> "isoWeek",
     d |-> "day", day |-> "day", days |-> "day",
     h |-> "hour", hour |-> "hour", hours |-> "hour",
     m |-> "minute", minute |-> "minute", minutes |-> "minute",
     s |-> "second", second |-> "second", seconds |-> "second",
     ms |-> "millisecond", millisecond |-> "millisecond",
     milliseconds |-> "millisecond"]

\* UNIT_MAP is an ordinary frozen object: a lookup of one of these names finds
\* a member of Object.prototype, a truthy value that is no unit name
ObjectPrototypeKeys ==
    {"constructor", "toString", "valueOf", "hasOwnProperty", "isPrototypeOf",
     "propertyIsEnumerable", "toLocaleString", "__proto__"}

Inherited == "[inherited]"

\* a variant that takes an unknown unit for days
normalizeUnitOrDay(unit) ==
    IF unit \in DOMAIN UNIT_MAP THEN UNIT_MAP[unit] ELSE "day"

normalizeUnit(unit) ==
    IF unit = "day" \/ unit = "days" \/ unit = "d" THEN "day"
    ELSE IF unit = "month" \/ unit = "months" \/ unit = "M" THEN "month"
    ELSE IF unit = "year" \/ unit = "years" \/ unit = "y" THEN "year"
    ELSE IF unit \in DOMAIN UNIT_MAP THEN UNIT_MAP[unit]
    ELSE IF unit \in ObjectPrototypeKeys THEN Inherited ELSE unit

isLeapYear(year) == (year % 4) = 0 /\ ((year % 100) # 0 \/ (year % 400) = 0)

\* month is 0-based
getDaysInMonth(year, month) ==
    IF month = 1 THEN (IF isLeapYear(year) THEN 29 ELSE 28)
    ELSE DAYS_IN_MONTH[month + 1]

Min(a, b) == IF a <= b THEN a ELSE b

Effect(self, ret) == [self |-> self, ret |-> ret]

\* the millisecond length of a fixed-length unit, 0 for any other unit
UnitMs(u) ==
    CASE u = "millisecond" -> 1
      [] u = "second" -> MS_PER_SECOND
      [] u = "minute" -> MS_PER_MINUTE
      [] u = "hour" -> MS_PER_HOUR
      [] u = "day" -> MS_PER_DAY
      [] u = "week" -> MS_PER_WEEK
      [] OTHER -> 0

\* a variant without the clamp: d.setDate(dayOfMonth)
SetDateUnclamped(h, d1, f1, dayOfMonth) ==
    SetLocalDate(h, d1, f1.year, f1.month, dayOfMonth)

\* d.setDate(Math.min(dayOfMonth, maxDays)) on the Date d1 with fields f1
ClampDate(h, d1, f1, dayOfMonth) ==
    SetLocalDate(h, d1, f1.year, f1.month,
                 Min(dayOfMonth, getDaysInMonth(f1.year, f1.month)))

ClampInto(h, d1, dayOfMonth) == ClampDate(h, d1, LocalFields(h, d1), dayOfMonth)

\* the month case of add, on a Date with fields f: setMonth(targetMonth, 1),
\* then the clamp
AddMonthsFrom(h, t, f, value) ==
    ClampInto(h, SetLocalDate(h, t, f.year, f.month + value, 1), f.date)

AddMonths(h, t, value) ==
    IF t.nan THEN NaN ELSE AddMonthsFrom(h, t, LocalFields(h, t), value)

\* the year case of add: setFullYear(getFullYear() + value)
AddYearsFrom(h, t, f, value) == SetLocalDate(h, t, f.year + value, f.month, f.date)

AddYears(h, t, value) ==
    IF t.nan THEN NaN ELSE AddYearsFrom(h, t, LocalFields(h, t), value)

\* the Date add() hands to the factory, for the canonical unit u
AddDate(h, timestamp, value, u) ==
    IF UnitMs(u) # 0 THEN PlusMs(timestamp, value, UnitMs(u))
    ELSE IF u = "year" THEN AddYears(h, timestamp, value)
    ELSE IF u = "month" THEN AddMonths(h, timestamp, value)
    ELSE timestamp

\* a variant that moves the receiver's own Date, as BatchContext.add does
addInPlace(h, cfg, ctx, value, unit) ==
    Effect(Target(AddDate(h, ctx.d, value, normalizeUnit(unit)), ctx.l, ctx.input),
           nano(h, cfg, DateInput(AddDate(h, ctx.d, value, normalizeUnit(unit))),
                ctx.l))

\* a variant of subtract that does not negate the amount
subtractForward(h, cfg, ctx, value, unit) ==
    Effect(ctx, nano(h, cfg, DateInput(AddDate(h, ctx.d, value, normalizeUnit(unit))),
                     ctx.l))

add(h, cfg, ctx, value, unit) ==
    Effect(ctx, nano(h, cfg, DateInput(AddDate(h, ctx.d, value, normalizeUnit(unit))),
                     ctx.l))

subtract(h, cfg, ctx, value, unit) == add(h, cfg, ctx, -value, unit)

\* new Date(...) of startOf, by unit, for a Date t with local fields d
StartOfFields(h, t, d, u) ==
    CASE u = "year" -> NewDateLocal(h, d.year, 0, 1, 0, 0, 0, 0)
      [] u = "quarter" -> NewDateLocal(h, d.year, (d.month \div 3) * 3, 1, 0, 0, 0, 0)
      [] u = "month" -> NewDateLocal(h, d.year, d.month, 1, 0, 0, 0, 0)
      [] u = "week" -> NewDateLocal(h, d.year, d.month, d.date - d.day, 0, 0, 0, 0)
      [] u = "isoWeek" ->
             NewDateLocal(h, d.year, d.month,
                          d.date + (IF d.day = 0 THEN -6 ELSE 1 - d.day), 0, 0, 0, 0)
      [] u = "day" -> NewDateLocal(h, d.year, d.month, d.date, 0, 0, 0, 0)
      [] u = "hour" -> PlusMs(t, -JsRemainder(t, MS_PER_HOUR), 1)
      [] u = "minute" -> PlusMs(t, -JsRemainder(t, MS_PER_MINUTE), 1)
      [] u = "second" -> PlusMs(t, -JsRemainder(t, MS_PER_SECOND), 1)
      [] OTHER -> t

StartOfDate(h, t, u) ==
    IF t.nan THEN NaN ELSE StartOfFields(h, t, LocalFields(h, t), u)

startOf(h, cfg, ctx, unit) ==
    Effect(ctx, nano(h, cfg, DateInput(StartOfDate(h, ctx.d, normalizeUnit(unit))), ctx.l))

\* new Date(...) of endOf, by unit, for a Date t with local fields d
EndOfFields(h, t, d, u) ==
    CASE u = "year" -> NewDateLocal(h, d.year, 11, 31, 23, 59, 59, 999)
      [] u = "quarter" ->
             NewDateLocal(h, d.year, (d.month \div 3) * 3 + 2,
                          getDaysInMonth(d.year, (d.month \div 3) * 3 + 2),
                          23, 59, 59, 999)
      [] u = "month" ->
             NewDateLocal(h, d.year, d.month, getDaysInMonth(d.year, d.month),
                          23, 59, 59, 999)
      [] u = "week" ->
             NewDateLocal(h, d.year, d.month, d.date + (6 - d.day), 23, 59, 59, 999)
      [] u = "isoWeek" ->
             NewDateLocal(h, d.year, d.month,
                          d.date + (IF d.day = 0 THEN 0 ELSE 7 - d.day), 23, 59, 59, 999)
      [] u = "day" -> NewDateLocal(h, d.year, d.month, d.date, 23, 59, 59, 999)
      [] u = "hour" -> PlusMs(t, -JsRemainder(t, MS_PER_HOUR) + MS_PER_HOUR - 1, 1)
      [] u = "minute" ->
             PlusMs(t, -JsRemainder(t, MS_PER_MINUTE) + MS_PER_MINUTE - 1, 1)
      [] u = "second" ->
             PlusMs(t, -JsRemainder(t, MS_PER_SECOND) + MS_PER_SECOND - 1, 1)
      [] OTHER -> t

EndOfDate(h, t, u) ==
    IF t.nan THEN NaN ELSE EndOfFields(h, t, LocalFields(h, t), u)

endOf(h, cfg, ctx, unit) ==
    Effect(ctx, nano(h, cfg, DateInput(EndOfDate(h, ctx.d, normalizeUnit(unit))), ctx.l))

\* the setter that set() calls on its copy of the Date, by unit, for a Date
\* t with local fields f
SetFieldOf(h, t, f, u, value) ==
    CASE u = "year" -> SetLocalDate(h, t, value, f.month, f.date)
      [] u = "month" -> SetLocalDate(h, t, f.year, value, f.date)
      [] u = "day" -> SetLocalDate(h, t, f.year, f.month, value)
      [] u = "hour" -> SetLocalTime(h, t, value, f.minutes, f.seconds, f.milliseconds)
      [] u = "minute" -> SetLocalTime(h, t, f.hours, value, f.seconds, f.milliseconds)
      [] u = "second" -> SetLocalTime(h, t, f.hours, f.minutes, value, f.milliseconds)
      [] u = "millisecond" -> SetLocalTime(h, t, f.hours, f.minutes, f.seconds, value)
      [] OTHER -> t

SetField(h, t, u, value) ==
    IF t.nan THEN NaN ELSE SetFieldOf(h, t, LocalFields(h, t), u, value)

set(h, cfg, ctx, unit, value) ==
    Effect(ctx, nano(h, cfg, DateInput(SetField(h, ctx.d, normalizeUnit(unit), value)), ctx.l))

(***************************************************************************)
(* The caches of the format module and of the calendar strings, each the   *)
(* keys in insertion order (Object.keys order) with the cached values, and *)
(* the size counters the module keeps beside them.                         *)
(***************************************************************************)
EmptyCaches ==
    [tokenCache |-> <<>>, tokenCacheSize |-> 0,
     formatterCache |-> <<>>, formatterCacheSize |-> 0,
     compiledCache |-> <<>>, compiledCacheSize |-> 0,
     localeNameCache |-> <<>>, calendarStringsCache |-> <<>>,
     tzFormatterCache |-> <<>>]

(***************************************************************************)
(* The state machine.  host is the environment (time-zone offset, parser   *)
(* leniency); globalConfig the module-level configuration; objs the heap   *)
(* of NanoDate targets in allocation order; calls the log of the calls     *)
(* made, each with its arguments and outcome; arg the inputs a run was     *)
(* started with.                                                           *)
(***************************************************************************)
MaxCalls == 3

NoCall ==
    [op |-> "", recv |-> 0, text |-> <<>>, locale |-> "undefined", value |-> 0,
     unit |-> "", options |-> NoOptions, ret |-> 0, threw |-> FALSE,
     error |-> NoError, result |-> FALSE, batch |-> 0, out |-> <<>>,
     holidays |-> {}, pattern |-> <<>>, other |-> 0, number |-> 0]

\* a call that returned or threw r (a factory outcome): the heap and the log
\* after it
Outcome(call, r) ==
    /\ objs' = IF r.threw THEN objs ELSE Append(objs, r.target)
    /\ calls' = Append(calls, [call EXCEPT !.threw = r.threw, !.error = r.error,
                                           !.ret = IF r.threw THEN 0 ELSE Len(objs) + 1])

\* a call on the receiver objs[k] with effect e
MethodOutcome(call, k, e) ==
    /\ objs' = IF e.ret.threw THEN [objs EXCEPT ![k] = e.self]
               ELSE Append([objs EXCEPT ![k] = e.self], e.ret.target)
    /\ calls' = Append(calls, [call EXCEPT !.recv = k, !.threw = e.ret.threw,
                                           !.error = e.ret.error,
                                           !.ret = IF e.ret.threw THEN 0
                                                   ELSE Len(objs) + 1])

NanoCall(text, locale) ==
    /\ Len(calls) < MaxCalls
    /\ Outcome([NoCall EXCEPT !.op = "nano", !.text = text, !.locale = locale],
               nano(host, globalConfig, StringInput(text), locale))
    /\ UNCHANGED <<host, globalConfig, arg, caches, batches, durs>>

StrictCall(text, locale) ==
    /\ Len(calls) < MaxCalls
    /\ Outcome([NoCall EXCEPT !.op = "strict", !.text = text, !.locale = locale],
               strict(host, StringInput(text), locale))
    /\ UNCHANGED <<host, globalConfig, arg, caches, batches, durs>>

ConfigCall(options) ==
    /\ Len(calls) < MaxCalls
    /\ globalConfig' = config(globalConfig, options)
    /\ calls' = Append(calls, [NoCall EXCEPT !.op = "config", !.options = options])
    /\ UNCHANGED <<host, objs, arg, caches, batches, durs>>

ResetConfigCall ==
    /\ Len(calls) < MaxCalls
    /\ globalConfig' = resetConfig
    /\ calls' = Append(calls, [NoCall EXCEPT !.op = "resetConfig"])
    /\ UNCHANGED <<host, objs, arg, caches, batches, durs>>

IsValidCall(k) ==
    /\ Len(calls) < MaxCalls
    /\ k \in DOMAIN objs
    /\ calls' = Append(calls, [NoCall EXCEPT !.op = "isValid", !.recv = k,
                                             !.result = isValid(host, objs[k])])
    /\ UNCHANGED <<host, globalConfig, objs, arg, caches, batches, durs>>

AddCall(k, value, unit) ==
    /\ Len(calls) < MaxCalls
    /\ k \in DOMAIN objs
    /\ MethodOutcome([NoCall EXCEPT !.op = "add", !.value = value, !.unit = unit], k,
                     add(host, globalConfig, objs[k], value, unit))
    /\ UNCHANGED <<host, globalConfig, arg, caches, batches, durs>>

SubtractCall(k, value, unit) ==
    /\ Len(calls) < MaxCalls
    /\ k \in DOMAIN objs
    /\ MethodOutcome([NoCall EXCEPT !.op = "subtract", !.value = value, !.unit = unit], k,
                     subtract(host, globalConfig, objs[k], value, unit))
    /\ UNCHANGED <<host, globalConfig, arg, caches, batches, durs>>

StartOfCall(k, unit) ==
    /\ Len(calls) < MaxCalls
    /\ k \in DOMAIN objs
    /\ MethodOutcome([NoCall EXCEPT !.op = "startOf", !.unit = unit], k,
                     startOf(host, globalConfig, objs[k], unit))
    /\ UNCHANGED <<host, globalConfig, arg, caches, batches, durs>>

EndOfCall(k, unit) ==
    /\ Len(calls) < MaxCalls
    /\ k \in DOMAIN objs
    /\ MethodOutcome([NoCall EXCEPT !.op = "endOf", !.unit = unit], k,
                     endOf(host, globalConfig, objs[k], unit))
    /\ UNCHANGED <<host, globalConfig, arg, caches, batches, durs>>

SetCall(k, unit, value) ==
    /\ Len(calls) < MaxCalls
    /\ k \in DOMAIN objs
    /\ MethodOutcome([NoCall EXCEPT !.op = "set", !.value = value, !.unit = unit], k,
                     set(host, globalConfig, objs[k], unit, value))
    /\ UNCHANGED <<host, globalConfig, arg, caches, batches, durs>>

\* fastParseISO(text) on its own: result is TRUE when it returned a Date,
\* FALSE when it returned null
FastParseCall(text) ==
    /\ Len(calls) < MaxCalls
    /\ calls' = Append(calls, [NoCall EXCEPT !.op = "fastParseISO", !.text = text,
                                             !.result = ~fastParseISO(host, text).null])
    /\ UNCHANGED <<host, globalConfig, objs, arg, caches, batches, durs>>

(***************************************************************************)
(* Hosts and input texts.                                                  *)
(***************************************************************************)
\* minutes east of UTC: New York (winter), UTC, India
HostOffsets == {-300, 0, 330}

Hosts == [tz : HostOffsets, lenient : BOOLEAN]

Pad2(n) == <<DigitChars[(n \div 10) + 1], DigitChars[(n % 10) + 1]>>

Pad3(n) == <<DigitChars[(n \div 100) + 1]>> \o Pad2(n % 100)

Pad4(n) == Pad2(n \div 100) \o Pad2(n % 100)

\* the text YYYY-MM-DD
DateText(y, m, d) == Pad4(y) \o <<"-">> \o Pad2(m) \o <<"-">> \o Pad2(d)

\* the text THH:mm:ss.SSS
TimeText(hh, mm, ss, sss) ==
    <<"T">> \o Pad2(hh) \o <<":">> \o Pad2(mm) \o <<":">> \o Pad2(ss)
            \o <<".">> \o Pad3(sss)

NoArg ==
    [text |-> <<>>, value |-> 0, unit |-> "", holidays |-> {}, dur |-> 0,
     pattern |-> <<>>, locale |-> "undefined"]

InitWith(args) ==
    /\ host \in Hosts
    /\ globalConfig = DefaultConfig
    /\ objs = <<>>
    /\ calls = <<>>
    /\ arg \in args
    /\ caches = EmptyCaches
    /\ batches = <<>>
    /\ durs = <<>>

(***************************************************************************)
(* SpecValid: permissive construction from a date-only text YYYY-MM-DD and *)
(* the validity query.  The texts cover two-digit, century, leap and       *)
(* common years, months 00..13 and the days around every month length.     *)
(***************************************************************************)
ValidityYears == {0, 50, 99, 100, 1900, 2000, 2024, 2026}

ValidityMonths == 0..13

ValidityDays == {0, 1, 28, 29, 30, 31, 32}

ValidityArgs ==
    {[NoArg EXCEPT !.text = DateText(y, m, d)] :
        y \in ValidityYears, m \in ValidityMonths, d \in ValidityDays}

InitValid == InitWith(ValidityArgs)

NextValid ==
    \/ NanoCall(arg.text, "undefined")
    \/ \E k \in DOMAIN objs : IsValidCall(k)

SpecValid == InitValid /\ [][NextValid]_vars

\* the text has the exact form YYYY-MM-DD
IsDateOnly(text) == Len(text) = 10 /\ ~parseDateString(text).null /\ text[5] = "-"

\* the calendar of the claim: the number of days of month m (1..12) of year y
TrueDaysInMonth(y, m) ==
    IF m = 2
    THEN (IF (y % 4 = 0) /\ ((y % 100 # 0) \/ (y % 400 = 0)) THEN 29 ELSE 28)
    ELSE IF m \in {4, 6, 9, 11} THEN 30 ELSE 31

RealDate(y, m, d) == m >= 1 /\ m <= 12 /\ d >= 1 /\ d <= TrueDaysInMonth(y, m)

\* the isValid() calls whose receiver nano() built from a date-only text
DateOnlyQueries ==
    {i \in DOMAIN calls :
        /\ calls[i].op = "isValid"
        /\ objs[calls[i].recv].input.defined
        /\ IsDateOnly(objs[calls[i].recv].input.text)}

YearOfText(text) == NumberAt(text, 1, 4)

MonthOfText(text) == NumberAt(text, 6, 2)

DayOfText(text) == NumberAt(text, 9, 2)

\* C1: for every text YYYY-MM-DD, isValid() of the instant built from it is
\* true exactly when the month is in 1..12 and the day is in 1..the number
\* of days of that month in that year (leap years by the 4/100/400 rule).
C1_ValidIffRealDate ==
    \A i \in DateOnlyQueries :
        LET text == objs[calls[i].recv].input.text
        IN  calls[i].result
                <=> RealDate(YearOfText(text), MonthOfText(text), DayOfText(text))

(***************************************************************************)
(* SpecStrict: the same text through the permissive factory, the validity  *)
(* query and the strict factory.                                           *)
(***************************************************************************)
Garbage == <<"n", "o", "t", " ", "a", " ", "d", "a", "t", "e">>

StrictTexts ==
    {DateText(2026, 1, 21), DateText(2024, 2, 29), DateText(2026, 2, 29),
     DateText(2026, 2, 30), DateText(2026, 4, 31), DateText(2026, 13, 1),
     DateText(2026, 1, 0), DateText(2026, 12, 31),
     DateText(2026, 1, 21) \o TimeText(12, 30, 45, 123),
     DateText(2026, 1, 21) \o TimeText(12, 30, 45, 123) \o <<"Z">>,
     DateText(2026, 1, 21) \o TimeText(23, 30, 0, 0) \o <<"+", "0", "5", ":", "3", "0">>,
     DateText(2026, 2, 30) \o TimeText(12, 30, 45, 123),
     Garbage, <<>>}

InitStrict == InitWith({[NoArg EXCEPT !.text = t] : t \in StrictTexts})

NextStrict ==
    \/ NanoCall(arg.text, "undefined")
    \/ StrictCall(arg.text, "undefined")
    \/ \E k \in DOMAIN objs : IsValidCall(k)

SpecStrict == InitStrict /\ [][NextStrict]_vars

\* C4: strict(text) raises InvalidDateError carrying the text exactly when
\* the permissive nano(text) reports isValid() = false; otherwise it returns
\* an instant with the epoch_millis of nano(text).
C4_StrictAgreesWithPermissive ==
    \A s \in DOMAIN calls, n \in DOMAIN calls, q \in DOMAIN calls :
        (/\ calls[s].op = "strict"
         /\ calls[n].op = "nano" /\ calls[n].text = calls[s].text /\ ~calls[n].threw
         /\ calls[q].op = "isValid" /\ calls[q].recv = calls[n].ret)
        => /\ calls[s].threw <=> ~calls[q].result
           /\ calls[s].threw
                => calls[s].error = InvalidDateError(Str(calls[s].text))
           /\ ~calls[s].threw => objs[calls[s].ret].d = objs[calls[n].ret].d

(***************************************************************************)
(* SpecConfig: the process-wide strict flag under config() and             *)
(* resetConfig(), and the factory under it.                                *)
(***************************************************************************)
ConfigOptions ==
    {[NoOptions EXCEPT !.hasStrict = TRUE, !.strict = TRUE],
     [NoOptions EXCEPT !.hasStrict = TRUE, !.strict = FALSE],
     [NoOptions EXCEPT !.hasLocale = TRUE, !.locale = "tr"]}

ConfigTexts ==
    {DateText(2026, 1, 21), DateText(2026, 2, 30), DateText(2024, 2, 29),
     DateText(2026, 13, 1), DateText(50, 6, 15),
     DateText(2026, 1, 21) \o TimeText(12, 30, 45, 123)}

InitConfig == InitWith({[NoArg EXCEPT !.text = t] : t \in ConfigTexts})

NextConfig ==
    \/ \E o \in ConfigOptions : ConfigCall(o)
    \/ ResetConfigCall
    \/ NanoCall(arg.text, "undefined")

SpecConfig == InitConfig /\ [][NextConfig]_vars

\* the strict flag the claim describes, after the first n calls of the log:
\* false initially and after resetConfig, the value of the latest config
\* call that supplied strict
RECURSIVE FlagAfter(_)
FlagAfter(n) ==
    IF n = 0 THEN FALSE
    ELSE IF calls[n].op = "resetConfig" THEN FALSE
    ELSE IF calls[n].op = "config" /\ calls[n].options.hasStrict
    THEN calls[n].options.strict
    ELSE FlagAfter(n - 1)

\* the text starts with a year-month-day that is no real calendar date
NamesInvalidDate(text) ==
    /\ DateGroups(text)
    /\ ~RealDate(YearOfText(text), MonthOfText(text), DayOfText(text))

\* C5: after any sequence of config and resetConfig calls, nano(text) raises
\* InvalidDateError iff the strict flag (false initially and after every
\* resetConfig, the value of the latest config call that gave strict) is
\* true and the text names a calendar-invalid date.
C5_RaisesIffStrictAndInvalid ==
    /\ globalConfig.strict = FlagAfter(Len(calls))
    /\ \A n \in DOMAIN calls :
          calls[n].op = "nano"
          => (calls[n].threw <=> (FlagAfter(n - 1) /\ NamesInvalidDate(calls[n].text)))

(***************************************************************************)
(* SpecArith: add and subtract with one amount and one unit, on instants   *)
(* built from text: month ends, a leap day, a year end, an instant before  *)
(* the epoch.  The parsers of all hosts agree on these texts.              *)
(***************************************************************************)
ArithHosts == [tz : HostOffsets, lenient : {TRUE}]

ArithTexts ==
    {DateText(2024, 1, 31) \o TimeText(10, 20, 30, 400),
     DateText(2024, 2, 29),
     DateText(2023, 12, 31) \o TimeText(23, 59, 59, 999),
     DateText(2025, 3, 15) \o TimeText(12, 0, 0, 0) \o <<"Z">>,
     DateText(1969, 12, 31) \o TimeText(23, 30, 0, 7) \o <<"Z">>}

Amounts == {-13, -1, 0, 1, 2, 12}

ArithUnits ==
    {"millisecond", "second", "minute", "hour", "day", "week", "month", "year",
     "quarter", "M", "years"}

InitArith ==
    /\ InitWith({[text |-> t, value |-> n, unit |-> u] :
                    t \in ArithTexts, n \in Amounts, u \in ArithUnits})
    /\ host \in ArithHosts

NextArith ==
    \/ NanoCall(arg.text, "undefined")
    \/ \E k \in DOMAIN objs : AddCall(k, arg.value, arg.unit)
    \/ \E k \in DOMAIN objs : SubtractCall(k, arg.value, arg.unit)

SpecArith == InitArith /\ [][NextArith]_vars

MonthAliases == {"month", "months", "M"}

YearAliases == {"year", "years", "y"}

QuarterAliases == {"quarter", "quarters", "Q"}

FixedUnits == {"millisecond", "second", "minute", "hour", "day", "week"}

\* the calls of the log that are add(value, unit) with unit among units, on
\* a receiver holding a valid Date
AddsOf(units) ==
    {c \in DOMAIN calls :
        calls[c].op = "add" /\ calls[c].unit \in units /\ ~objs[calls[c].recv].d.nan}

\* local fields r are year-month ty-tm (tm 0-based), day min(f.date, days of
\* that month), at the time of day of f
ClampedTo(f, r, ty, tm) ==
    /\ r.year = ty
    /\ r.month = tm
    /\ r.date = Min(f.date, TrueDaysInMonth(ty, tm + 1))
    /\ r.time = f.time

MonthAdded(f, r, n) ==
    ClampedTo(f, r, f.year + ((f.month + n) \div 12), (f.month + n) % 12)

\* C2: add(i, N, 'month') has year y + floor((m+N)/12), month (m+N) mod 12,
\* day min(d, days in the target month) and the time of day of i, for
\* positive, zero and negative N.
C2_MonthAddClamps ==
    \A c \in AddsOf(MonthAliases) :
        MonthAdded(LocalFields(host, objs[calls[c].recv].d),
                   LocalFields(host, objs[calls[c].ret].d), calls[c].value)

\* an add over a month end: the day of i does not exist in the target month
C2_Witness ==
    \E c \in AddsOf(MonthAliases) :
        /\ calls[c].value < 0
        /\ LocalFields(host, objs[calls[c].ret].d).date
              < LocalFields(host, objs[calls[c].recv].d).date
        /\ LocalFields(host, objs[calls[c].ret].d).year
              < LocalFields(host, objs[calls[c].recv].d).year

\* C9: add(i, N, 'year') has year y+N, month m and day min(d, days of month
\* m in year y+N): Feb 29 plus one year is Feb 28.
C9_YearAddClamps ==
    \A c \in AddsOf(YearAliases) :
        ClampedTo(LocalFields(host, objs[calls[c].recv].d),
                  LocalFields(host, objs[calls[c].ret].d),
                  LocalFields(host, objs[calls[c].recv].d).year + calls[c].value,
                  LocalFields(host, objs[calls[c].recv].d).month)

\* the day of month of f exists in month tm (0-based, any integer) of year ty
DayFits(f, ty, tm) ==
    f.date <= TrueDaysInMonth(ty + (tm \div 12), (tm % 12) + 1)

\* the forward step add(i, n, unit) needed no clamp
NoClamp(f, n, unit) ==
    \/ unit \in FixedUnits
    \/ unit \in MonthAliases /\ DayFits(f, f.year, f.month + n)
    \/ unit \in YearAliases /\ DayFits(f, f.year + n, f.month)

\* the pairs (a, s): s is subtract(n, u) called on the instant that the call
\* a = add(n, u) returned
RoundTrips ==
    {p \in (DOMAIN calls) \X (DOMAIN calls) :
        /\ calls[p[1]].op = "add" /\ calls[p[2]].op = "subtract"
        /\ calls[p[2]].recv = calls[p[1]].ret
        /\ calls[p[2]].value = calls[p[1]].value
        /\ calls[p[2]].unit = calls[p[1]].unit
        /\ ~objs[calls[p[1]].recv].d.nan}

InitQuarter ==
    /\ InitWith({[text |-> t, value |-> n, unit |-> u] :
                    t \in ArithTexts, n \in Amounts, u \in QuarterAliases})
    /\ host \in ArithHosts

NextQuarter ==
    \/ NanoCall(arg.text, "undefined")
    \/ \E k \in DOMAIN objs : AddCall(k, arg.value, arg.unit)
    \/ \E k \in DOMAIN objs : AddCall(k, 3 * arg.value, "month")

SpecQuarter == InitQuarter /\ [][NextQuarter]_vars

\* C10: add(i, N, 'quarter'), also as 'Q' and 'quarters', equals
\* add(i, 3*N, 'month').
C10_QuarterIsThreeMonths ==
    \A q \in AddsOf(QuarterAliases), m \in AddsOf({"month"}) :
        (calls[m].recv = calls[q].recv /\ calls[m].value = 3 * calls[q].value)
        => objs[calls[q].ret].d = objs[calls[m].ret].d

(***************************************************************************)
(* SpecSnap: startOf and endOf with one unit, on instants before and after *)
(* the epoch, on hosts west of UTC, at UTC and at UTC+05:30.               *)
(***************************************************************************)
SnapTexts ==
    {DateText(1969, 7, 20) \o TimeText(20, 17, 40, 500) \o <<"Z">>,
     DateText(2024, 2, 14) \o TimeText(15, 45, 30, 250),
     DateText(2026, 11, 1) \o TimeText(0, 0, 0, 0),
     DateText(2025, 12, 31) \o TimeText(23, 59, 59, 999) \o <<"Z">>}

SnapUnits ==
    {"year", "quarter", "month", "week", "isoWeek", "day", "hour", "minute", "second"}

InitSnap ==
    /\ InitWith({[NoArg EXCEPT !.text = t, !.unit = u] : t \in SnapTexts, u \in SnapUnits})
    /\ host \in ArithHosts

NextSnap ==
    \/ NanoCall(arg.text, "undefined")
    \/ \E k \in DOMAIN objs : StartOfCall(k, arg.unit)
    \/ \E k \in DOMAIN objs : EndOfCall(k, arg.unit)

SpecSnap == InitSnap /\ [][NextSnap]_vars

\* the pairs (a, b) of calls of op with the same unit, b on the instant
\* that a returned
SnapPairs(op) ==
    {p \in (DOMAIN calls) \X (DOMAIN calls) :
        /\ calls[p[1]].op = op /\ calls[p[2]].op = op
        /\ calls[p[2]].recv = calls[p[1]].ret
        /\ calls[p[2]].unit = calls[p[1]].unit
        /\ calls[p[1]].unit \in SnapUnits
        /\ ~objs[calls[p[1]].recv].d.nan}

\* C7: startOf(startOf(i, u), u) equals startOf(i, u) and
\* endOf(endOf(i, u), u) equals endOf(i, u), for every instant and unit.
C7_SnapIdempotent ==
    \A op \in {"startOf", "endOf"} :
        \A p \in SnapPairs(op) : objs[calls[p[2]].ret].d = objs[calls[p[1]].ret].d

LastMs == MS_PER_DAY - 1

\* local fields r are the first millisecond of the block of unit u that
\* holds the local fields f
IsBlockStart(f, r, u) ==
    CASE u = "year" -> r.year = f.year /\ r.month = 0 /\ r.date = 1 /\ r.time = 0
      [] u = "quarter" ->
             /\ r.year = f.year /\ r.month = 3 * (f.month \div 3)
             /\ r.date = 1 /\ r.time = 0
      [] u = "month" ->
             r.year = f.year /\ r.month = f.month /\ r.date = 1 /\ r.time = 0
      [] u = "week" -> r.lday = f.lday - f.day /\ r.day = 0 /\ r.time = 0
      [] u = "isoWeek" ->
             r.lday = f.lday - ((f.day + 6) % 7) /\ r.day = 1 /\ r.time = 0
      [] u = "day" -> r.lday = f.lday /\ r.time = 0
      [] u = "hour" ->
             /\ r.lday = f.lday /\ r.hours = f.hours
             /\ r.minutes = 0 /\ r.seconds = 0 /\ r.milliseconds = 0
      [] u = "minute" ->
             /\ r.lday = f.lday /\ r.hours = f.hours /\ r.minutes = f.minutes
             /\ r.seconds = 0 /\ r.milliseconds = 0
      [] u = "second" ->
             /\ r.lday = f.lday /\ r.hours = f.hours /\ r.minutes = f.minutes
             /\ r.seconds = f.seconds /\ r.milliseconds = 0

\* local fields r are the last millisecond of the block of unit u that
\* holds the local fields f
IsBlockEnd(f, r, u) ==
    CASE u = "year" ->
             r.year = f.year /\ r.month = 11 /\ r.date = 31 /\ r.time = LastMs
      [] u = "quarter" ->
             /\ r.year = f.year /\ r.month = 3 * (f.month \div 3) + 2
             /\ r.date = TrueDaysInMonth(r.year, r.month + 1) /\ r.time = LastMs
      [] u = "month" ->
             /\ r.year = f.year /\ r.month = f.month
             /\ r.date = TrueDaysInMonth(r.year, r.month + 1) /\ r.time = LastMs
      [] u = "week" -> r.lday = f.lday + (6 - f.day) /\ r.day = 6 /\ r.time = LastMs
      [] u = "isoWeek" ->
             r.lday = f.lday + (6 - ((f.day + 6) % 7)) /\ r.day = 0 /\ r.time = LastMs
      [] u = "day" -> r.lday = f.lday /\ r.time = LastMs
      [] u = "hour" ->
             /\ r.lday = f.lday /\ r.hours = f.hours
             /\ r.minutes = 59 /\ r.seconds = 59 /\ r.milliseconds = 999
      [] u = "minute" ->
             /\ r.lday = f.lday /\ r.hours = f.hours /\ r.minutes = f.minutes
             /\ r.seconds = 59 /\ r.milliseconds = 999
      [] u = "second" ->
             /\ r.lday = f.lday /\ r.hours = f.hours /\ r.minutes = f.minutes
             /\ r.seconds = f.seconds /\ r.milliseconds = 999

\* the calls of op with a unit of SnapUnits on a receiver holding a valid Date
SnapsOf(op) ==
    {c \in DOMAIN calls :
        calls[c].op = op /\ calls[c].unit \in SnapUnits /\ ~objs[calls[c].recv].d.nan}

\* C8: startOf(i, u) is the first and endOf(i, u) the last millisecond of
\* the local calendar block of unit u that contains i, also before the epoch
\* and on hosts whose offset is not a whole number of hours; hence
\* startOf(i, u) <= i <= endOf(i, u).
C8_SnapIsBlockEdge ==
    /\ \A c \in SnapsOf("startOf") :
          /\ IsBlockStart(LocalFields(host, objs[calls[c].recv].d),
                          LocalFields(host, objs[calls[c].ret].d), calls[c].unit)
          /\ ~Earlier(objs[calls[c].recv].d, objs[calls[c].ret].d)
    /\ \A c \in SnapsOf("endOf") :
          /\ IsBlockEnd(LocalFields(host, objs[calls[c].recv].d),
                        LocalFields(host, objs[calls[c].ret].d), calls[c].unit)
          /\ ~Earlier(objs[calls[c].ret].d, objs[calls[c].recv].d)

(***************************************************************************)
(* Spec: every manipulation method, in any order, on instants built from   *)
(* text.                                                                   *)
(***************************************************************************)
Texts ==
    {DateText(2024, 1, 31) \o TimeText(10, 20, 30, 400),
     DateText(2024, 2, 29),
     DateText(1969, 12, 31) \o TimeText(23, 30, 0, 7) \o <<"Z">>}

Values == {-1, 2}

Units ==
    {"year", "quarter", "month", "week", "day", "hour", "minute", "second",
     "millisecond"}

Init ==
    /\ InitWith({[text |-> t, value |-> n, unit |-> u] :
                    t \in Texts, n \in Values, u \in Units})
    /\ host \in ArithHosts

Next ==
    \/ NanoCall(arg.text, "tr")
    \/ \E k \in DOMAIN objs : AddCall(k, arg.value, arg.unit)
    \/ \E k \in DOMAIN objs : SubtractCall(k, arg.value, arg.unit)
    \/ \E k \in DOMAIN objs : SetCall(k, arg.unit, arg.value)
    \/ \E k \in DOMAIN objs : StartOfCall(k, arg.unit)
    \/ \E k \in DOMAIN objs : EndOfCall(k, arg.unit)

Spec == Init /\ [][Next]_vars

Manipulations == {"add", "subtract", "set", "startOf", "endOf"}

\* the step is a call of a manipulation method that returned the instant
\* just allocated
ReturnsNew ==
    /\ Len(calls') = Len(calls) + 1
    /\ calls'[Len(calls')].op \in Manipulations
    /\ ~calls'[Len(calls')].threw
    /\ Len(objs') = Len(objs) + 1
    /\ calls'[Len(calls')].ret = Len(objs')
    /\ calls'[Len(calls')].ret # calls'[Len(calls')].recv

\* C3: add, subtract, set, startOf and endOf never change the receiver: the
\* Date, locale and retained text of every instant are after the call what
\* they were before it, and the call returns a new instant.
C3_ReceiverUnchanged ==
    [][(\A k \in DOMAIN objs : k \in DOMAIN objs' /\ objs'[k] = objs[k])
       /\ (calls'[Len(calls')].op \in Manipulations => ReturnsNew)]_vars

\* the instant built first was the receiver of an add and of an endOf that
\* returned other instants, and still holds its text, locale and Date
C3_Witness ==
    \E a \in DOMAIN calls, b \in DOMAIN calls :
        /\ calls[a].op = "add" /\ calls[b].op = "endOf"
        /\ calls[a].recv = 1 /\ calls[b].recv = 1
        /\ objs[calls[a].ret].d # objs[1].d
        /\ objs[calls[b].ret].d # objs[1].d
        /\ objs[1] = nano(host, DefaultConfig, StringInput(arg.text), "tr").target

(***************************************************************************)
(* SpecParse: the fast parser on texts put together from a date part, a    *)
(* time part and a zone part, well-formed and not.                         *)
(***************************************************************************)
Chars(str) ==
    CASE str = "" -> <<>>
      [] str = "Z" -> <<"Z">>
      [] str = "z" -> <<"z">>
      [] str = " " -> <<" ">>
      [] str = "+05" -> <<"+", "0", "5">>
      [] str = "+05:" -> <<"+", "0", "5", ":">>
      [] str = "+05:30" -> <<"+", "0", "5", ":", "3", "0">>
      [] str = "+0530" -> <<"+", "0", "5", "3", "0">>
      [] str = "-08:00" -> <<"-", "0", "8", ":", "0", "0">>
      [] str = "+5:30" -> <<"+", "5", ":", "3", "0">>
      [] str = "T10" -> <<"T", "1", "0">>
      [] str = "T10:20" -> <<"T", "1", "0", ":", "2", "0">>
      [] str = "t10:20" -> <<"t", "1", "0", ":", "2", "0">>
      [] str = "T10:20:" -> <<"T", "1", "0", ":", "2", "0", ":">>
      [] str = "T10:20:30" -> <<"T", "1", "0", ":", "2", "0", ":", "3", "0">>
      [] str = "T10:20:30." -> <<"T", "1", "0", ":", "2", "0", ":", "3", "0", ".">>
      [] str = "T10:20:30.4" ->
             <<"T", "1", "0", ":", "2", "0", ":", "3", "0", ".", "4">>
      [] str = "T10:20:30.45" ->
             <<"T", "1", "0", ":", "2", "0", ":", "3", "0", ".", "4", "5">>
      [] str = "T10:20:30.456" ->
             <<"T", "1", "0", ":", "2", "0", ":", "3", "0", ".", "4", "5", "6">>
      [] str = "T10:20:30.4567" ->
             <<"T", "1", "0", ":", "2", "0", ":", "3", "0", ".", "4", "5", "6", "7">>
      [] str = "2026-1-21" -> <<"2", "0", "2", "6", "-", "1", "-", "2", "1">>
      [] str = "2026/01/21" -> <<"2", "0", "2", "6", "/", "0", "1", "/", "2", "1">>
      [] str = "20260121" -> <<"2", "0", "2", "6", "0", "1", "2", "1">>

DateParts ==
    {DateText(2026, 1, 21), DateText(2026, 13, 45), Chars("2026-1-21"),
     Chars("2026/01/21"), Chars("20260121"), <<>>}

TimeParts ==
    {Chars(t) : t \in {"", "T10", "T10:20", "t10:20", "T10:20:", "T10:20:30",
                       "T10:20:30.", "T10:20:30.4", "T10:20:30.45",
                       "T10:20:30.456", "T10:20:30.4567"}}

ZoneParts ==
    {Chars(z) : z \in {"", "Z", "z", " ", "+05", "+05:", "+05:30", "+0530",
                       "-08:00", "+5:30"}}

ParseTexts == {d \o t \o z : d \in DateParts, t \in TimeParts, z \in ZoneParts}

InitParse == InitWith({[NoArg EXCEPT !.text = t] : t \in ParseTexts})

NextParse ==
    \/ FastParseCall(arg.text)
    \/ NanoCall(arg.text, "undefined")

SpecParse == InitParse /\ [][NextParse]_vars

\* the grammar as stated: THH:mm, THH:mm:ss or THH:mm:ss.SSS at offset 11;
\* the lengths of the time parts that s has there (0: none)
GrammarTimeLengths(s) ==
    {0} \cup (IF TimeGroups(s) THEN {6} ELSE {})
        \cup (IF SecondGroup(s) THEN {9} ELSE {})
        \cup (IF SecondGroup(s) /\ CharAt(s, 20, ".") /\ DigitsAt(s, 21, 3)
              THEN {13} ELSE {})

\* nothing, Z, a signed HH or a signed HH:mm, from offset p to the end of s
GrammarZone(s, p) ==
    \/ Len(s) = p - 1
    \/ Len(s) = p /\ s[p] = "Z"
    \/ Len(s) = p + 2 /\ Signed(s, p)
    \/ Len(s) = p + 5 /\ Signed(s, p) /\ s[p + 3] = ":" /\ DigitsAt(s, p + 4, 2)

InGrammar(s) ==
    DateGroups(s) /\ \E n \in GrammarTimeLengths(s) : GrammarZone(s, 11 + n)

\* C15: the fast parser returns an instant exactly for the strings of the
\* grammar YYYY-MM-DD[THH:mm[:ss[.SSS]]][Z|+-HH[:mm]] and signals
\* NotRecognized, without throwing, for every other string, the strings
\* shorter than 10 characters among them.
C15_RecognizesExactlyGrammar ==
    \A c \in DOMAIN calls :
        calls[c].op = "fastParseISO"
        => /\ ~calls[c].threw
           /\ calls[c].result <=> InGrammar(calls[c].text)

(***************************************************************************)
(* SpecUnknown: the manipulation methods with unit strings that UNIT_MAP   *)
(* has no key for (a wrong case, an empty string, names that every object  *)
(* inherits), and with one that it has.                                    *)
(***************************************************************************)
UnknownUnits ==
    {"fortnight", "", "Month", "decade", "constructor", "__proto__", "day"}

InitUnknown ==
    /\ InitWith({[text |-> t, value |-> n, unit |-> u] :
                    t \in Texts \cup {Garbage}, n \in Values, u \in UnknownUnits})
    /\ host \in ArithHosts

SpecUnknown == InitUnknown /\ [][Next]_vars

\* C16: add, subtract, startOf, endOf and set with a unit string that the
\* unit table does not map return a new instant with the epoch_millis of the
\* receiver and never throw.
C16_UnknownUnitClones ==
    \A c \in DOMAIN calls :
        (calls[c].op \in Manipulations /\ calls[c].unit \notin DOMAIN UNIT_MAP)
        => /\ ~calls[c].threw
           /\ calls[c].ret \in DOMAIN objs
           /\ calls[c].ret # calls[c].recv
           /\ objs[calls[c].ret].d = objs[calls[c].recv].d

\* every method was called with an unmapped unit, on a valid instant
C16_Witness ==
    /\ Len(calls) >= 3 /\ calls[1].op = "nano" /\ ~objs[1].d.nan
    /\ \A c \in 2..Len(calls) :
          calls[c].recv = 1 /\ calls[c].unit = "constructor"
    /\ calls[2].op = "add" /\ calls[3].op = "endOf" /\ arg.value = 2

(***************************************************************************)
(* BatchContext: the mutable twin of the manipulation methods.  A batch    *)
(* holds its own Date { _d, _l } and every method moves that Date with the *)
(* Date setters; done() hands it to the factory.                           *)
(***************************************************************************)
BatchContext(date, locale) == [d |-> date, l |-> locale]

batch(ctx) == BatchContext(ctx.d, ctx.l)

BatchAdd(h, this, value, unit) ==
    [this EXCEPT !.d = AddDate(h, this.d, value, normalizeUnit(unit))]

BatchSubtract(h, this, value, unit) == BatchAdd(h, this, -value, unit)

\* startOf of a batch, for a Date t with local fields f: setMonth / setDate
\* choose the local day, setHours / setMinutes / setSeconds /
\* setMilliseconds the time within it
BatchStartOfFields(h, t, f, u) ==
    CASE u = "year" -> FromLocal(h, MakeDay(f.year, 0, 1), 0)
      [] u = "quarter" -> FromLocal(h, MakeDay(f.year, (f.month \div 3) * 3, 1), 0)
      [] u = "month" -> FromLocal(h, MakeDay(f.year, f.month, 1), 0)
      [] u = "week" -> FromLocal(h, MakeDay(f.year, f.month, f.date - f.day), 0)
      [] u = "isoWeek" ->
             FromLocal(h, MakeDay(f.year, f.month,
                                  f.date + (IF f.day = 0 THEN -6 ELSE 1 - f.day)), 0)
      [] u = "day" -> FromLocal(h, f.lday, 0)
      [] u = "hour" -> FromLocal(h, f.lday, MakeTime(f.hours, 0, 0, 0))
      [] u = "minute" -> FromLocal(h, f.lday, MakeTime(f.hours, f.minutes, 0, 0))
      [] u = "second" ->
             FromLocal(h, f.lday, MakeTime(f.hours, f.minutes, f.seconds, 0))
      [] OTHER -> t

BatchStartOf(h, this, unit) ==
    IF this.d.nan THEN this
    ELSE [this EXCEPT !.d = BatchStartOfFields(h, this.d, LocalFields(h, this.d),
                                               normalizeUnit(unit))]

\* endOf of a batch; it has no isoWeek case
BatchEndOfFields(h, t, f, u) ==
    CASE u = "year" -> FromLocal(h, MakeDay(f.year, 11, 31), MakeTime(23, 59, 59, 999))
      [] u = "quarter" ->
             FromLocal(h, MakeDay(f.year, (f.month \div 3) * 3 + 2,
                                  getDaysInMonth(f.year, (f.month \div 3) * 3 + 2)),
                       MakeTime(23, 59, 59, 999))
      [] u = "month" ->
             FromLocal(h, MakeDay(f.year, f.month, getDaysInMonth(f.year, f.month)),
                       MakeTime(23, 59, 59, 999))
      [] u = "week" ->
             FromLocal(h, MakeDay(f.year, f.month, f.date + (6 - f.day)),
                       MakeTime(23, 59, 59, 999))
      [] u = "day" -> FromLocal(h, f.lday, MakeTime(23, 59, 59, 999))
      [] u = "hour" -> FromLocal(h, f.lday, MakeTime(f.hours, 59, 59, 999))
      [] u = "minute" -> FromLocal(h, f.lday, MakeTime(f.hours, f.minutes, 59, 999))
      [] u = "second" ->
             FromLocal(h, f.lday, MakeTime(f.hours, f.minutes, f.seconds, 999))
      [] OTHER -> t

BatchEndOf(h, this, unit) ==
    IF this.d.nan THEN this
    ELSE [this EXCEPT !.d = BatchEndOfFields(h, this.d, LocalFields(h, this.d),
                                             normalizeUnit(unit))]

BatchSet(h, this, unit, value) ==
    [this EXCEPT !.d = SetField(h, this.d, normalizeUnit(unit), value)]

done(h, cfg, this) == nano(h, cfg, DateInput(this.d), this.l)

\* the batch method op applied to the batch this
BatchMethod(h, this, op, value, unit) ==
    CASE op = "add" -> BatchAdd(h, this, value, unit)
      [] op = "subtract" -> BatchSubtract(h, this, value, unit)
      [] op = "startOf" -> BatchStartOf(h, this, unit)
      [] op = "endOf" -> BatchEndOf(h, this, unit)
      [] op = "set" -> BatchSet(h, this, unit, value)

BatchCall(k) ==
    /\ Len(calls) < MaxCalls
    /\ k \in DOMAIN objs
    /\ batches' = Append(batches, batch(objs[k]))
    /\ calls' = Append(calls, [NoCall EXCEPT !.op = "batch", !.recv = k,
                                             !.batch = Len(batches) + 1])
    /\ UNCHANGED <<host, globalConfig, objs, arg, caches, durs>>

\* b.add / b.subtract / b.startOf / b.endOf / b.set: the batch itself moves
BatchMethodCall(b, op, value, unit) ==
    /\ Len(calls) < MaxCalls
    /\ b \in DOMAIN batches
    /\ batches' = [batches EXCEPT ![b] = BatchMethod(host, batches[b], op, value, unit)]
    /\ calls' = Append(calls, [NoCall EXCEPT !.op = op, !.batch = b, !.value = value,
                                             !.unit = unit])
    /\ UNCHANGED <<host, globalConfig, objs, arg, caches, durs>>

DoneCall(b) ==
    /\ Len(calls) < MaxCalls
    /\ b \in DOMAIN batches
    /\ Outcome([NoCall EXCEPT !.op = "done", !.batch = b],
               done(host, globalConfig, batches[b]))
    /\ UNCHANGED <<host, globalConfig, arg, caches, batches, durs>>

(***************************************************************************)
(* SpecBatch: an instant, batches opened on it, batch methods and done().  *)
(***************************************************************************)
BatchUnits ==
    {"year", "quarter", "month", "week", "isoWeek", "day", "hour", "minute",
     "second", "millisecond"}

BatchTexts ==
    {DateText(2024, 2, 29) \o TimeText(10, 20, 30, 400),
     DateText(2026, 11, 1) \o TimeText(0, 0, 0, 0),
     DateText(2026, 1, 21) \o TimeText(15, 45, 30, 250) \o <<"Z">>,
     DateText(1969, 7, 20) \o TimeText(20, 17, 40, 500) \o <<"Z">>}

\* the state after i = nano(text)
InitBatch ==
    /\ host \in ArithHosts
    /\ globalConfig = DefaultConfig
    /\ arg \in {[text |-> t, value |-> n, unit |-> u] :
                   t \in BatchTexts, n \in Values, u \in BatchUnits}
    /\ objs = <<nano(host, DefaultConfig, StringInput(arg.text), "undefined").target>>
    /\ calls = <<>>
    /\ caches = EmptyCaches
    /\ batches = <<>>
    /\ durs = <<>>

NextBatch ==
    \/ \E k \in DOMAIN objs : BatchCall(k)
    \/ \E b \in DOMAIN batches, op \in Manipulations :
          BatchMethodCall(b, op, arg.value, arg.unit)
    \/ \E b \in DOMAIN batches : DoneCall(b)

SpecBatch == InitBatch /\ [][NextBatch]_vars

\* the immutable method op on the target ctx: the target it returns
Immutable(h, ctx, op, value, unit) ==
    CASE op = "add" -> add(h, DefaultConfig, ctx, value, unit).ret.target
      [] op = "subtract" -> subtract(h, DefaultConfig, ctx, value, unit).ret.target
      [] op = "startOf" -> startOf(h, DefaultConfig, ctx, unit).ret.target
      [] op = "endOf" -> endOf(h, DefaultConfig, ctx, unit).ret.target
      [] op = "set" -> set(h, DefaultConfig, ctx, unit, value).ret.target

\* the instant that the immutable API gives for the methods that the calls
\* 1..n of the log made on batch b, starting from the target ctx
RECURSIVE ImmutableChain(_, _, _)
ImmutableChain(ctx, b, n) ==
    IF n = 0 THEN ctx
    ELSE IF calls[n].batch = b /\ calls[n].op \in Manipulations
    THEN Immutable(host, ImmutableChain(ctx, b, n - 1), calls[n].op,
                   calls[n].value, calls[n].unit)
    ELSE ImmutableChain(ctx, b, n - 1)

\* the call that opened batch b
OpenedBy(b) == CHOOSE c \in DOMAIN calls : calls[c].op = "batch" /\ calls[c].batch = b

\* C18: i.batch(), any sequence of add, subtract, startOf, endOf and set
\* with a documented unit, and done() yield an instant with the epoch_millis
\* of the same operations applied one after another through the immutable
\* API.
C18_BatchEqualsImmutable ==
    \A c \in DOMAIN calls :
        calls[c].op = "done"
        => objs[calls[c].ret].d
              = ImmutableChain(objs[calls[OpenedBy(calls[c].batch)].recv],
                               calls[c].batch, c).d

(***************************************************************************)
(* Business days (utils).  A holiday list is a set of texts.               *)
(***************************************************************************)
\* String(n) for an integer n
RECURSIVE NumText(_)
NumText(n) ==
    IF n < 0 THEN <<"-">> \o NumText(-n)
    ELSE IF n < 10 THEN <<DigitChars[n + 1]>>
    ELSE NumText(n \div 10) \o <<DigitChars[(n % 10) + 1]>>

NaNText == <<"N", "a", "N">>

\* toDateString(d) for a Date with local fields f: the year is not padded
DateStringOf(f) ==
    NumText(f.year) \o <<"-">> \o Pad2(f.month + 1) \o <<"-">> \o Pad2(f.date)

toDateString(h, t) ==
    IF t.nan THEN NaNText \o <<"-">> \o NaNText \o <<"-">> \o NaNText
    ELSE DateStringOf(LocalFields(h, t))

\* buildHolidaySet: a text of length 10 with dashes at 5 and 8 is taken as it
\* is, any other goes through new Date(text)
buildHolidaySet(h, holidays) ==
    {IF Len(x) = 10 /\ x[5] = "-" /\ x[8] = "-" THEN x
     ELSE toDateString(h, NativeParse(h, x)) : x \in holidays}

\* the loop of addBusinessDays: result is the Date reached so far
RECURSIVE BusinessWalk(_, _, _, _, _)
BusinessStep(h, next, dayOfWeek, remaining, direction, holidaySet) ==
    IF dayOfWeek = 0 \/ dayOfWeek = 6 \/ toDateString(h, next) \in holidaySet
    THEN BusinessWalk(h, next, remaining, direction, holidaySet)
    ELSE BusinessWalk(h, next, remaining - 1, direction, holidaySet)

\* result.setDate(result.getDate() + direction), for the fields f of result
BusinessNext(h, result, f, direction) ==
    SetLocalDate(h, result, f.year, f.month, f.date + direction)

BusinessWalk(h, result, remaining, direction, holidaySet) ==
    IF remaining <= 0 THEN result
    ELSE BusinessStep(h, BusinessNext(h, result, LocalFields(h, result), direction),
                      LocalFields(h, BusinessNext(h, result, LocalFields(h, result),
                                                  direction)).day,
                      remaining, direction, holidaySet)

Abs(n) == IF n < 0 THEN -n ELSE n

addBusinessDays(h, cfg, ctx, days, holidays) ==
    Effect(ctx,
           nano(h, cfg,
                DateInput(IF ctx.d.nan THEN NaN
                          ELSE BusinessWalk(h, ctx.d, Abs(days),
                                            IF days >= 0 THEN 1 ELSE -1,
                                            buildHolidaySet(h, holidays))),
                ctx.l))

AddBusinessDaysCall(k, days, holidays) ==
    /\ Len(calls) < MaxCalls
    /\ k \in DOMAIN objs
    /\ MethodOutcome([NoCall EXCEPT !.op = "addBusinessDays", !.value = days,
                                    !.holidays = holidays], k,
                     addBusinessDays(host, globalConfig, objs[k], days, holidays))
    /\ UNCHANGED <<host, globalConfig, arg, caches, batches, durs>>

(***************************************************************************)
(* SpecBusiness: addBusinessDays from a Thursday, a Saturday, a Monday     *)
(* night and a Friday of the year 999, with holiday lists around them.     *)
(***************************************************************************)
BusinessTexts ==
    {DateText(2026, 1, 22),
     DateText(2026, 1, 24) \o TimeText(9, 30, 15, 250),
     DateText(2026, 1, 26) \o TimeText(23, 30, 0, 0) \o <<"Z">>,
     DateText(999, 12, 27) \o TimeText(8, 0, 0, 0)}

BusinessAmounts == {-6, -3, -1, 1, 2, 6}

HolidayLists ==
    {{},
     {DateText(2026, 1, 26)},
     {DateText(2026, 1, 20), DateText(2026, 1, 21), DateText(2026, 1, 23),
      DateText(2026, 1, 26), DateText(2026, 1, 27)},
     {DateText(2026, 1, 24), DateText(2026, 1, 25)},
     {DateText(999, 12, 30), DateText(999, 12, 26)}}

InitBusiness ==
    /\ InitWith({[text |-> t, value |-> n, unit |-> "", holidays |-> hs] :
                    t \in BusinessTexts, n \in BusinessAmounts, hs \in HolidayLists})
    /\ host \in ArithHosts

NextBusiness ==
    \/ NanoCall(arg.text, "undefined")
    \/ \E k \in DOMAIN objs : AddBusinessDaysCall(k, arg.value, arg.holidays)

SpecBusiness == InitBusiness /\ [][NextBusiness]_vars

\* the calendar date of local day number lday, as the text YYYY-MM-DD
CalendarText(c) == DateText(c.year, c.month + 1, c.date)

\* local day lday is Monday to Friday and its calendar date is not in H
IsBusinessDate(lday, H) ==
    /\ ((lday + 4) % 7) \in 1..5
    /\ CalendarText(CivilFromDays(lday)) \notin H

\* local fields r are the n-th business day after (n > 0) or before (n < 0)
\* the day of local fields f, at the time of day of f
NthBusinessDay(f, r, n, H) ==
    /\ r.time = f.time
    /\ IsBusinessDate(r.lday, H)
    /\ IF n > 0
       THEN /\ r.lday > f.lday
            /\ Cardinality({x \in (f.lday + 1)..r.lday : IsBusinessDate(x, H)}) = n
       ELSE /\ r.lday < f.lday
            /\ Cardinality({x \in r.lday..(f.lday - 1) : IsBusinessDate(x, H)}) = -n

BusinessCalls ==
    {c \in DOMAIN calls :
        /\ calls[c].op = "addBusinessDays" /\ calls[c].value # 0
        /\ ~objs[calls[c].recv].d.nan}

\* C19: addBusinessDays(i, n, H) returns the |n|-th business day (Monday
\* to Friday, local calendar date not in H) strictly after i when n > 0 and
\* strictly before i when n < 0, with the time of day of i.
C19_NthBusinessDay ==
    \A c \in BusinessCalls :
        /\ ~calls[c].threw
        /\ NthBusinessDay(LocalFields(host, objs[calls[c].recv].d),
                          LocalFields(host, objs[calls[c].ret].d),
                          calls[c].value, calls[c].holidays)

(***************************************************************************)
(* Duration.  _ms is held as a sign and a magnitude, the magnitude as a    *)
(* time value (day, ms); MS_PER_MONTH and MS_PER_YEAR exceed 32 bits and   *)
(* are held the same way.  The seconds of the ISO text are an exact        *)
(* decimal here: the rounding of the double the code computes them in is   *)
(* not modelled.                                                           *)
(***************************************************************************)
\* 2629746000 = 30 * MS_PER_DAY + 37746000; 31556952000 = 365 * MS_PER_DAY + 20952000
MS_PER_MONTH == TimeValue(30, 37746000)

MS_PER_YEAR == TimeValue(365, 20952000)

MaxQuotient == 60

Zero == TimeValue(0, 0)

Scale(q, unit) == TimeValue(q * unit.day, q * unit.ms)

Sum(a, b) == TimeValue(a.day + b.day, a.ms + b.ms)

Difference(a, b) == TimeValue(a.day - b.day, a.ms - b.ms)

\* Math.floor(a / unit) and a % unit for magnitudes
Quotient(a, unit) ==
    CHOOSE q \in 0..MaxQuotient :
        ~Earlier(a, Scale(q, unit)) /\ Earlier(a, Scale(q + 1, unit))

Remainder(a, unit) == Difference(a, Scale(Quotient(a, unit), unit))

Duration(neg, abs) == [neg |-> neg /\ abs # Zero, abs |-> abs]

\* toObject: the magnitudes of the components (the sign is applied to each)
toObject(this) ==
    [years |-> Quotient(this.abs, MS_PER_YEAR),
     months |-> Quotient(Remainder(this.abs, MS_PER_YEAR), MS_PER_MONTH),
     days |-> Remainder(this.abs, MS_PER_MONTH).day,
     hours |-> this.abs.ms \div MS_PER_HOUR,
     minutes |-> (this.abs.ms % MS_PER_HOUR) \div MS_PER_MINUTE,
     seconds |-> (this.abs.ms % MS_PER_MINUTE) \div MS_PER_SECOND,
     milliseconds |-> this.abs.ms % MS_PER_SECOND]

\* n + letter when n is not 0
Designator(n, letter) == IF n = 0 THEN <<>> ELSE NumText(n) \o <<letter>>

\* the digits of ms / 1000 after the decimal point
RECURSIVE TrimZeros(_)
TrimZeros(digits) ==
    IF Len(digits) > 0 /\ digits[Len(digits)] = "0"
    THEN TrimZeros(SubSeq(digits, 1, Len(digits) - 1)) ELSE digits

\* seconds + milliseconds / 1000, as text
SecondsText(seconds, milliseconds) ==
    IF milliseconds = 0 THEN NumText(seconds)
    ELSE NumText(seconds) \o <<".">> \o TrimZeros(Pad3(milliseconds))

IsoTimePart(obj) ==
    IF obj.hours = 0 /\ obj.minutes = 0 /\ obj.seconds = 0 /\ obj.milliseconds = 0
    THEN <<>>
    ELSE <<"T">> \o Designator(obj.hours, "H") \o Designator(obj.minutes, "M")
            \o (IF obj.seconds = 0 /\ obj.milliseconds = 0 THEN <<>>
                ELSE SecondsText(obj.seconds, obj.milliseconds) \o <<"S">>)

IsoDurationText(neg, obj) ==
    (IF neg THEN <<"-", "P">> ELSE <<"P">>)
        \o Designator(obj.years, "Y") \o Designator(obj.months, "M")
        \o Designator(obj.days, "D") \o IsoTimePart(obj)

ZeroDurationText == <<"P", "T", "0", "S">>

toISOString(this) ==
    IF IsoDurationText(this.neg, toObject(this)) \in {<<"P">>, <<"-", "P">>}
    THEN ZeroDurationText
    ELSE IsoDurationText(this.neg, toObject(this))

\* the length of the run of digits of s that begins at offset i
RECURSIVE DigitRun(_, _)
DigitRun(s, i) == IF i <= Len(s) /\ s[i] \in Digits THEN 1 + DigitRun(s, i + 1) ELSE 0

RECURSIVE BigNumberAt(_, _, _)
BigNumberAt(s, i, n) ==
    IF n = 0 THEN 0 ELSE 10 * BigNumberAt(s, i, n - 1) + DigitValue(s[i + n - 1])

\* (?:(\d+)L)? at offset i for the designator letter L: the digits taken (0
\* when the group takes no part)
GroupLength(s, i, letter) ==
    IF DigitRun(s, i) > 0 /\ CharAt(s, i + DigitRun(s, i), letter)
    THEN DigitRun(s, i) ELSE 0

\* the state of the scan: pos the offset reached, ms the sum so far
ScanGroup(s, scan, letter, unit) ==
    IF GroupLength(s, scan.pos, letter) = 0 THEN scan
    ELSE [pos |-> scan.pos + GroupLength(s, scan.pos, letter) + 1,
          ms |-> Sum(scan.ms,
                     Scale(BigNumberAt(s, scan.pos, GroupLength(s, scan.pos, letter)),
                           unit))]

\* (?:(\d+(?:\.\d+)?)S)? : whole seconds and the fraction, up to 3 digits of
\* it counted in milliseconds
FractionRun(s, i) == IF CharAt(s, i, ".") THEN DigitRun(s, i + 1) ELSE 0

FractionMs(s, i, n) ==
    IF n = 0 THEN 0
    ELSE IF n >= 3 THEN NumberAt(s, i, 3) ELSE NumberAt(s, i, n) * Pow10(3 - n)

ScanSecondsWith(s, scan, whole, frac) ==
    IF whole = 0 \/ (CharAt(s, scan.pos + whole, ".") /\ frac = 0)
       \/ ~CharAt(s, scan.pos + whole + (IF frac = 0 THEN 0 ELSE frac + 1), "S")
    THEN scan
    ELSE [pos |-> scan.pos + whole + (IF frac = 0 THEN 0 ELSE frac + 1) + 1,
          ms |-> Sum(scan.ms,
                     TimeValue(0, BigNumberAt(s, scan.pos, whole) * MS_PER_SECOND
                                  + FractionMs(s, scan.pos + whole + 1, frac)))]

ScanSeconds(s, scan) ==
    ScanSecondsWith(s, scan, DigitRun(s, scan.pos),
                    FractionRun(s, scan.pos + DigitRun(s, scan.pos)))

ScanTime(s, scan) ==
    IF ~CharAt(s, scan.pos, "T") THEN scan
    ELSE ScanSeconds(s,
             ScanGroup(s, ScanGroup(s, [scan EXCEPT !.pos = scan.pos + 1],
                                    "H", TimeValue(0, MS_PER_HOUR)),
                       "M", TimeValue(0, MS_PER_MINUTE)))

ScanDate(s, scan) ==
    ScanGroup(s, ScanGroup(s, ScanGroup(s, ScanGroup(s, scan, "Y", MS_PER_YEAR),
                                        "M", MS_PER_MONTH),
                           "W", TimeValue(7, 0)),
              "D", TimeValue(1, 0))

\* the scan after ^(-)?P
ScanStart(s) ==
    IF CharAt(s, 1, "-") /\ CharAt(s, 2, "P") THEN [pos |-> 3, ms |-> Zero]
    ELSE IF CharAt(s, 1, "P") THEN [pos |-> 2, ms |-> Zero]
    ELSE [pos |-> 0, ms |-> Zero]

ParsedDuration(s, scan) ==
    IF scan.pos # Len(s) + 1 THEN Duration(FALSE, Zero)
    ELSE Duration(CharAt(s, 1, "-"), scan.ms)

parseISO8601Duration(str) ==
    IF ScanStart(str).pos = 0 THEN Duration(FALSE, Zero)
    ELSE ParsedDuration(str, ScanTime(str, ScanDate(str, ScanStart(str))))

\* duration(input) for a number of milliseconds
DurationCall(neg, abs) ==
    /\ Len(calls) < MaxCalls
    /\ durs' = Append(durs, Duration(neg, abs))
    /\ calls' = Append(calls, [NoCall EXCEPT !.op = "duration", !.ret = Len(durs) + 1])
    /\ UNCHANGED <<host, globalConfig, objs, arg, caches, batches>>

ToISOStringCall(k) ==
    /\ Len(calls) < MaxCalls
    /\ k \in DOMAIN durs
    /\ calls' = Append(calls, [NoCall EXCEPT !.op = "toISOString", !.recv = k,
                                             !.out = toISOString(durs[k])])
    /\ UNCHANGED <<host, globalConfig, objs, arg, caches, batches, durs>>

\* duration(text) for a text
DurationParseCall(text) ==
    /\ Len(calls) < MaxCalls
    /\ durs' = Append(durs, parseISO8601Duration(text))
    /\ calls' = Append(calls, [NoCall EXCEPT !.op = "parseDuration", !.text = text,
                                             !.ret = Len(durs) + 1])
    /\ UNCHANGED <<host, globalConfig, objs, arg, caches, batches>>

(***************************************************************************)
(* SpecDuration: a Duration from a number of milliseconds, its ISO text,   *)
(* and the Duration parsed from that text.                                 *)
(***************************************************************************)
DurationDays == {0, 1, 29, 30, 31, 366}

DurationMs == {0, 1500, 3723004, 37746000, 86399999}

InitDuration ==
    InitWith({[NoArg EXCEPT !.dur = Duration(neg, TimeValue(d, ms))] :
                 neg \in BOOLEAN, d \in DurationDays, ms \in DurationMs})

NextDuration ==
    \/ DurationCall(arg.dur.neg, arg.dur.abs)
    \/ \E k \in DOMAIN durs : ToISOStringCall(k)
    \/ \E c \in DOMAIN calls :
          calls[c].op = "toISOString" /\ DurationParseCall(calls[c].out)

SpecDuration == InitDuration /\ [][NextDuration]_vars

\* C20: parsing d.toISOString() as ISO-8601 duration text yields a Duration
\* with exactly the millis of d, for every signed whole number of millis.
C20_DurationTextRoundTrip ==
    \A t \in DOMAIN calls, p \in DOMAIN calls :
        (/\ calls[t].op = "toISOString"
         /\ calls[p].op = "parseDuration" /\ calls[p].text = calls[t].out)
        => durs[calls[p].ret] = durs[calls[t].recv]

(***************************************************************************)
(* format (format.js).  A pattern and an output are sequences of           *)
(* characters; a locale is named by a string and spelled by LocaleChars    *)
(* where the code concatenates it into a cache key.  Intl is the host's:   *)
(* a tag is structurally valid or the constructor throws RangeError, the   *)
(* names and day periods are those of the tag's language (Turkish for tr,  *)
(* English otherwise; a character outside ASCII is written <U+hhhh>), and  *)
(* format and formatToParts throw RangeError on an invalid Date.  A name   *)
(* is one element of the output.                                           *)
(***************************************************************************)
HostLocale == "en-US"

getLocale(ctx) == IF Falsy(ctx.l) THEN HostLocale ELSE ctx.l

LocaleChars(locale) ==
    CASE locale = "en-US" -> <<"e", "n", "-", "U", "S">>
      [] locale = "en" -> <<"e", "n">>
      [] locale = "tr" -> <<"t", "r">>
      [] locale = "de" -> <<"d", "e">>
      [] locale = "x|en" -> <<"x", "|", "e", "n">>

\* Intl's IsStructurallyValidLanguageTag, for the spellings above and the
\* tags language-region
IntlValid(loc) == \A i \in DOMAIN loc : loc[i] # "|"

IntlLanguage(loc) == IF Len(loc) >= 2 /\ SubSeq(loc, 1, 2) = <<"t", "r">> THEN "tr" ELSE "en"

\* the fields a Date's getters return; nan when they all return NaN
NaNFields ==
    [nan |-> TRUE, year |-> 0, month |-> 0, date |-> 0, day |-> 0, hours |-> 0,
     minutes |-> 0, seconds |-> 0, milliseconds |-> 0]

Getters(f) ==
    [nan |-> FALSE, year |-> f.year, month |-> f.month, date |-> f.date,
     day |-> f.day, hours |-> f.hours, minutes |-> f.minutes,
     seconds |-> f.seconds, milliseconds |-> f.milliseconds]

GettersOf(h, d) == IF d.nan THEN NaNFields ELSE Getters(LocalFields(h, d))

\* String(n), n a getter's value
StringOf(nan, n) == IF nan THEN NaNText ELSE NumText(n)

pad2(nan, n) ==
    IF nan THEN NaNText ELSE IF n \in 0..99 THEN Pad2(n) ELSE NumText(n)

pad3(nan, n) ==
    IF nan THEN NaNText
    ELSE IF n < 10 THEN <<"0", "0">> \o NumText(n)
    ELSE IF n < 100 THEN <<"0">> \o NumText(n) ELSE NumText(n)

\* warmLocaleCache's tables
EnglishFallback ==
    [weekdays |-> <<"Sunday", "Monday", "Tuesday", "Wednesday", "Thursday", "Friday", "Saturday">>,
     weekdaysShort |-> <<"Sun", "Mon", "Tue", "Wed", "Thu", "Fri", "Sat">>,
     weekdaysMin |-> <<"Su", "Mo", "Tu", "We", "Th", "Fr", "Sa">>,
     months |-> <<"January", "February", "March", "April", "May", "June", "July", "August", "September", "October", "November", "December">>,
     monthsShort |-> <<"Jan", "Feb", "Mar", "Apr", "May", "Jun", "Jul", "Aug", "Sep", "Oct", "Nov", "Dec">>]

IntlEnglish == [EnglishFallback EXCEPT !.weekdaysMin = <<"S", "M", "T", "W", "T", "F", "S">>]

IntlTurkish ==
    [weekdays |-> <<"Pazar", "Pazartesi", "Sal<U+0131>", "<U+00C7>ar<U+015F>amba", "Per<U+015F>embe", "Cuma", "Cumartesi">>,
     weekdaysShort |-> <<"Paz", "Pzt", "Sal", "<U+00C7>ar", "Per", "Cum", "Cmt">>,
     weekdaysMin |-> <<"P", "P", "S", "<U+00C7>", "P", "C", "C">>,
     months |-> <<"Ocak", "<U+015E>ubat", "Mart", "Nisan", "May<U+0131>s", "Haziran", "Temmuz", "A<U+011F>ustos", "Eyl<U+00FC>l", "Ekim", "Kas<U+0131>m", "Aral<U+0131>k">>,
     monthsShort |-> <<"Oca", "<U+015E>ub", "Mar", "Nis", "May", "Haz", "Tem", "A<U+011F>u", "Eyl", "Eki", "Kas", "Ara">>]

warmLocaleCacheNames(loc) ==
    IF ~IntlValid(loc) THEN EnglishFallback
    ELSE IF IntlLanguage(loc) = "tr" THEN IntlTurkish ELSE IntlEnglish

\* the index of key among the keys of a cache, 0 when it has none
CacheIndex(cache, key) ==
    IF \E i \in DOMAIN cache : cache[i].key = key
    THEN CHOOSE i \in DOMAIN cache : cache[i].key = key ELSE 0

Entry(key, value) == [key |-> key, value |-> value]

\* getLocaleNames / warmLocaleCache: the caches after the call
getLocaleNames(c, loc) ==
    IF CacheIndex(c.localeNameCache, loc) # 0 THEN c
    ELSE [c EXCEPT !.localeNameCache = Append(@, Entry(loc, warmLocaleCacheNames(loc)))]

\* the names the call returns, c the caches after it
LocaleNames(c, loc) == c.localeNameCache[CacheIndex(c.localeNameCache, loc)].value

\* delete the first half of the keys: for (i = 0; i < keys.length / 2; i++)
EvictHalf(cache) == SubSeq(cache, ((Len(cache) + 1) \div 2) + 1, Len(cache))

MAX_FORMATTER_CACHE == 200

MAX_TOKEN_CACHE == 150

MAX_COMPILED_CACHE == 100

\* d.getFullYear() joined to text
Year(f) == StringOf(f.nan, f.year)

YMD(f, sep) == Year(f) \o sep \o pad2(f.nan, f.month + 1) \o sep \o pad2(f.nan, f.date)

DMY(f, sep) == pad2(f.nan, f.date) \o sep \o pad2(f.nan, f.month + 1) \o sep \o Year(f)

MDY(f, sep) == pad2(f.nan, f.month + 1) \o sep \o pad2(f.nan, f.date) \o sep \o Year(f)

HM(f) == pad2(f.nan, f.hours) \o <<":">> \o pad2(f.nan, f.minutes)

HMS(f) == HM(f) \o <<":">> \o pad2(f.nan, f.seconds)

\* d.getHours() % 12 || 12
Hours12(f) == IF f.nan \/ f.hours % 12 = 0 THEN 12 ELSE f.hours % 12

\* d.getHours() < 12 ? 'AM' : 'PM'
Meridiem(f) == IF ~f.nan /\ f.hours < 12 THEN <<"A", "M">> ELSE <<"P", "M">>

\* the offset of the two ISO patterns; getTimezoneOffset() is NaN on an
\* invalid Date
PrecompiledOffset(h, f) ==
    IF f.nan THEN <<"-", "0", "0", ":">> \o NaNText
    ELSE (IF h.tz >= 0 THEN <<"+">> ELSE <<"-">>)
            \o pad2(FALSE, Abs(h.tz) \div 60) \o <<":">> \o pad2(FALSE, Abs(h.tz) % 60)

\* Date.prototype.toISOString of a finite time value with UTC fields u
IsoYear(y) ==
    IF y \in 0..9999 THEN Pad4(y)
    ELSE (IF y < 0 THEN <<"-">> ELSE <<"+">>)
            \o Pad2(Abs(y) \div 10000) \o Pad4(Abs(y) % 10000)

IsoStringOf(u) ==
    IsoYear(u.year) \o <<"-">> \o Pad2(u.month + 1) \o <<"-">> \o Pad2(u.date)
        \o <<"T">> \o Pad2(u.hours) \o <<":">> \o Pad2(u.minutes) \o <<":">>
        \o Pad2(u.seconds) \o <<".">> \o Pad3(u.milliseconds) \o <<"Z">>

\* String(d.getTime()): the magnitude is (100000 * high + low) ms
Pad5(n) == Pad2(n \div 1000) \o Pad3(n % 1000)

MagnitudeText(high, low) ==
    IF high = 0 THEN NumText(low) ELSE NumText(high) \o Pad5(low)

TimeMagnitude(day, ms) == MagnitudeText(day * 864 + ms \div 100000, ms % 100000)

GetTimeText(d) ==
    IF d.nan THEN NaNText
    ELSE IF d.day >= 0 THEN TimeMagnitude(d.day, d.ms)
    ELSE IF d.ms = 0 THEN <<"-">> \o TimeMagnitude(-d.day, 0)
    ELSE <<"-">> \o TimeMagnitude(-d.day - 1, MS_PER_DAY - d.ms)

\* (d.getTime() / 1000) | 0: the quotient truncated, then ToInt32.  The
\* seconds are 128 * (675 * day) + s
Int32Sum(high, s) ==
    IF high > 2147483647 - s THEN (high - 2147483647 - 1) + (s - 2147483647 - 1)
    ELSE high + s

Int32Times128(a) ==
    IF a % 33554432 >= 16777216 THEN ((a % 33554432) - 33554432) * 128
    ELSE (a % 33554432) * 128

UnixSeconds(d) ==
    IF d.nan THEN 0
    ELSE Int32Sum(Int32Times128(d.day * 675),
                  d.ms \div MS_PER_SECOND
                    + (IF d.day < 0 /\ d.ms % MS_PER_SECOND # 0 THEN 1 ELSE 0))

\* the own keys of PRECOMPILED
PrecompiledKeys ==
    {<<"Y", "Y", "Y", "Y", "-", "M", "M", "-", "D", "D">>, <<"Y", "Y", "Y", "Y", "/", "M", "M", "/", "D", "D">>, <<"D", "D", "/", "M", "M", "/", "Y", "Y", "Y", "Y">>, <<"M", "M", "/", "D", "D", "/", "Y", "Y", "Y", "Y">>, <<"D", "D", "-", "M", "M", "-", "Y", "Y", "Y", "Y">>, <<"D", "D", ".", "M", "M", ".", "Y", "Y", "Y", "Y">>,
     <<"H", "H", ":", "m", "m">>, <<"H", "H", ":", "m", "m", ":", "s", "s">>, <<"H", "H", ":", "m", "m", ":", "s", "s", ".", "S", "S", "S">>, <<"h", "h", ":", "m", "m", " ", "A">>, <<"h", ":", "m", "m", " ", "A">>, <<"h", "h", ":", "m", "m", ":", "s", "s", " ", "A">>,
     <<"Y", "Y", "Y", "Y", "-", "M", "M", "-", "D", "D", "T", "H", "H", ":", "m", "m", ":", "s", "s">>, <<"Y", "Y", "Y", "Y", "-", "M", "M", "-", "D", "D", " ", "H", "H", ":", "m", "m">>, <<"Y", "Y", "Y", "Y", "-", "M", "M", "-", "D", "D", " ", "H", "H", ":", "m", "m", ":", "s", "s">>,
     <<"D", "D", "/", "M", "M", "/", "Y", "Y", "Y", "Y", " ", "H", "H", ":", "m", "m">>, <<"M", "M", "/", "D", "D", "/", "Y", "Y", "Y", "Y", " ", "H", "H", ":", "m", "m">>,
     <<"Y", "Y", "Y", "Y", "-", "M", "M", "-", "D", "D", "T", "H", "H", ":", "m", "m", ":", "s", "s", "Z">>, <<"Y", "Y", "Y", "Y", "-", "M", "M", "-", "D", "D", "T", "H", "H", ":", "m", "m", ":", "s", "s", ".", "S", "S", "S", "Z">>,
     <<"I", "S", "O">>, <<"X">>, <<"x">>}

FormatOut(threw, out) == [threw |-> threw, out |-> out]

\* PRECOMPILED[fmt](d) for a key fmt, f the getters of d
PRECOMPILED(h, d, f, fmt) ==
    CASE fmt = <<"Y", "Y", "Y", "Y", "-", "M", "M", "-", "D", "D">> -> FormatOut(FALSE, YMD(f, <<"-">>))
      [] fmt = <<"Y", "Y", "Y", "Y", "/", "M", "M", "/", "D", "D">> -> FormatOut(FALSE, YMD(f, <<"/">>))
      [] fmt = <<"D", "D", "/", "M", "M", "/", "Y", "Y", "Y", "Y">> -> FormatOut(FALSE, DMY(f, <<"/">>))
      [] fmt = <<"M", "M", "/", "D", "D", "/", "Y", "Y", "Y", "Y">> -> FormatOut(FALSE, MDY(f, <<"/">>))
      [] fmt = <<"D", "D", "-", "M", "M", "-", "Y", "Y", "Y", "Y">> -> FormatOut(FALSE, DMY(f, <<"-">>))
      [] fmt = <<"D", "D", ".", "M", "M", ".", "Y", "Y", "Y", "Y">> -> FormatOut(FALSE, DMY(f, <<".">>))
      [] fmt = <<"H", "H", ":", "m", "m">> -> FormatOut(FALSE, HM(f))
      [] fmt = <<"H", "H", ":", "m", "m", ":", "s", "s">> -> FormatOut(FALSE, HMS(f))
      [] fmt = <<"H", "H", ":", "m", "m", ":", "s", "s", ".", "S", "S", "S">> ->
            FormatOut(FALSE, HMS(f) \o <<".">> \o pad3(f.nan, f.milliseconds))
      [] fmt = <<"h", "h", ":", "m", "m", " ", "A">> ->
            FormatOut(FALSE, pad2(FALSE, Hours12(f)) \o <<":">> \o pad2(f.nan, f.minutes)
                                \o <<" ">> \o Meridiem(f))
      [] fmt = <<"h", ":", "m", "m", " ", "A">> ->
            FormatOut(FALSE, NumText(Hours12(f)) \o <<":">> \o pad2(f.nan, f.minutes)
                                \o <<" ">> \o Meridiem(f))
      [] fmt = <<"h", "h", ":", "m", "m", ":", "s", "s", " ", "A">> ->
            FormatOut(FALSE, pad2(FALSE, Hours12(f)) \o <<":">> \o pad2(f.nan, f.minutes)
                                \o <<":">> \o pad2(f.nan, f.seconds)
                                \o <<" ">> \o Meridiem(f))
      [] fmt = <<"Y", "Y", "Y", "Y", "-", "M", "M", "-", "D", "D", "T", "H", "H", ":", "m", "m", ":", "s", "s">> -> FormatOut(FALSE, YMD(f, <<"-">>) \o <<"T">> \o HMS(f))
      [] fmt = <<"Y", "Y", "Y", "Y", "-", "M", "M", "-", "D", "D", " ", "H", "H", ":", "m", "m">> -> FormatOut(FALSE, YMD(f, <<"-">>) \o <<" ">> \o HM(f))
      [] fmt = <<"Y", "Y", "Y", "Y", "-", "M", "M", "-", "D", "D", " ", "H", "H", ":", "m", "m", ":", "s", "s">> -> FormatOut(FALSE, YMD(f, <<"-">>) \o <<" ">> \o HMS(f))
      [] fmt = <<"D", "D", "/", "M", "M", "/", "Y", "Y", "Y", "Y", " ", "H", "H", ":", "m", "m">> -> FormatOut(FALSE, DMY(f, <<"/">>) \o <<" ">> \o HM(f))
      [] fmt = <<"M", "M", "/", "D", "D", "/", "Y", "Y", "Y", "Y", " ", "H", "H", ":", "m", "m">> -> FormatOut(FALSE, MDY(f, <<"/">>) \o <<" ">> \o HM(f))
      [] fmt = <<"Y", "Y", "Y", "Y", "-", "M", "M", "-", "D", "D", "T", "H", "H", ":", "m", "m", ":", "s", "s", "Z">> ->
            FormatOut(FALSE, YMD(f, <<"-">>) \o <<"T">> \o HMS(f) \o PrecompiledOffset(h, f))
      [] fmt = <<"Y", "Y", "Y", "Y", "-", "M", "M", "-", "D", "D", "T", "H", "H", ":", "m", "m", ":", "s", "s", ".", "S", "S", "S", "Z">> ->
            FormatOut(FALSE, YMD(f, <<"-">>) \o <<"T">> \o HMS(f) \o <<".">>
                                \o pad3(f.nan, f.milliseconds) \o PrecompiledOffset(h, f))
      [] fmt = <<"I", "S", "O">> ->
            IF d.nan THEN FormatOut(TRUE, <<>>)
            ELSE FormatOut(FALSE, IsoStringOf(LocalTimeFields(d)))
      [] fmt = <<"X">> -> FormatOut(FALSE, NumText(UnixSeconds(d)))
      [] fmt = <<"x">> -> FormatOut(FALSE, GetTimeText(d))

Result(c, threw, out) == [caches |-> c, threw |-> threw, out |-> out]

\* if (size >= MAX) { delete the first half of Object.keys; size = keys.length / 2 }
Evicted(c, cache, size, max) ==
    IF c[size] >= max
    THEN [c EXCEPT ![cache] = EvictHalf(@), ![size] = Len(c[cache]) \div 2]
    ELSE c

\* cache[key] = value; size++
Stored(c, cache, size, key, value) ==
    [c EXCEPT ![cache] = Append(@, Entry(key, value)), ![size] = @ + 1]

\* getOptionsKey of the option sets the module builds
DateStyleKey(style) == <<"d", "a", "t", "e", "S", "t", "y", "l", "e", ":">> \o style \o <<";">>

DateTimeStyleKey(style) ==
    <<"d", "a", "t", "e", "S", "t", "y", "l", "e", ":">> \o style \o <<";", "t", "i", "m", "e", "S", "t", "y", "l", "e", ":">> \o style \o <<";">>

HourKey == <<"h", "o", "u", "r", ":", "n", "u", "m", "e", "r", "i", "c", ";", "h", "o", "u", "r", "1", "2", ":", "t", "r", "u", "e", ";">>

FormatterKey(loc, optionsKey) == loc \o <<"|">> \o optionsKey

\* new Intl.DateTimeFormat(locale, options) throws RangeError
getFormatterThrows(c, loc, optionsKey) ==
    CacheIndex(c.formatterCache, FormatterKey(loc, optionsKey)) = 0 /\ ~IntlValid(loc)

\* getFormatter(locale, options): the caches after the call
getFormatter(c, loc, optionsKey) ==
    IF CacheIndex(c.formatterCache, FormatterKey(loc, optionsKey)) # 0 THEN c
    ELSE IF ~IntlValid(loc)
    THEN Evicted(c, "formatterCache", "formatterCacheSize", MAX_FORMATTER_CACHE)
    ELSE Stored(Evicted(c, "formatterCache", "formatterCacheSize", MAX_FORMATTER_CACHE),
                "formatterCache", "formatterCacheSize", FormatterKey(loc, optionsKey),
                [locale |-> loc, options |-> optionsKey])

\* the formatter the call returns, c the caches after it
Formatter(c, loc, optionsKey) ==
    c.formatterCache[CacheIndex(c.formatterCache, FormatterKey(loc, optionsKey))].value

\* formatter.format(date) for a valid Date: the text Intl gives for the
\* formatter's locale and options and the Date's time value
IntlFormat(formatter, d) ==
    <<"Intl:">> \o formatter.locale \o <<"|">> \o formatter.options \o GetTimeText(d)

\* getFormatter(locale, options).format(date)
FormatWith(c, formatter, d) ==
    IF d.nan THEN Result(c, TRUE, <<>>) ELSE Result(c, FALSE, IntlFormat(formatter, d))

PresetFormat(c, loc, optionsKey, d) ==
    IF getFormatterThrows(c, loc, optionsKey)
    THEN Result(getFormatter(c, loc, optionsKey), TRUE, <<>>)
    ELSE FormatWith(getFormatter(c, loc, optionsKey),
                    Formatter(getFormatter(c, loc, optionsKey), loc, optionsKey), d)

\* the dayPeriod part of { hour: 'numeric', hour12: true } in a language
DayPeriod(language, hours, uppercase) ==
    IF language = "tr"
    THEN (IF uppercase THEN <<"<U+00D6>">> ELSE <<"<U+00F6>">>)
            \o (IF hours < 12 THEN (IF uppercase THEN <<"<U+00D6>">> ELSE <<"<U+00F6>">>)
                ELSE IF uppercase THEN <<"S">> ELSE <<"s">>)
    ELSE IF uppercase THEN (IF hours < 12 THEN <<"A", "M">> ELSE <<"P", "M">>)
    ELSE IF hours < 12 THEN <<"a", "m">> ELSE <<"p", "m">>

\* formatter.formatToParts(date) throws RangeError on an invalid Date
PeriodWith(c, formatter, f, uppercase) ==
    IF f.nan THEN Result(c, TRUE, <<>>)
    ELSE Result(c, FALSE, DayPeriod(IntlLanguage(formatter.locale), f.hours, uppercase))

getAmPm(c, f, loc, uppercase) ==
    IF getFormatterThrows(c, loc, HourKey)
    THEN Result(getFormatter(c, loc, HourKey), TRUE, <<>>)
    ELSE PeriodWith(getFormatter(c, loc, HourKey),
                    Formatter(getFormatter(c, loc, HourKey), loc, HourKey), f, uppercase)

getOffset(h, f, withColon) ==
    IF f.nan
    THEN <<"-">> \o NaNText \o (IF withColon THEN <<":">> ELSE <<>>) \o NaNText
    ELSE (IF h.tz >= 0 THEN <<"+">> ELSE <<"-">>)
            \o pad2(FALSE, Abs(h.tz) \div 60) \o (IF withColon THEN <<":">> ELSE <<>>)
            \o pad2(FALSE, Abs(h.tz) % 60)

\* ord(n) for a day of the month: s[(v - 20) % 10] || s[v] || s[0]
OrdinalSuffix(v) ==
    IF v >= 20 /\ (v - 20) % 10 = 1 THEN <<"s", "t">>
    ELSE IF v >= 20 /\ (v - 20) % 10 = 2 THEN <<"n", "d">>
    ELSE IF v >= 20 /\ (v - 20) % 10 = 3 THEN <<"r", "d">>
    ELSE IF v = 1 THEN <<"s", "t">>
    ELSE IF v = 2 THEN <<"n", "d">>
    ELSE IF v = 3 THEN <<"r", "d">>
    ELSE <<"t", "h">>

ord(nan, n) ==
    IF nan THEN NaNText \o <<"t", "h">> ELSE NumText(n) \o OrdinalSuffix(n % 100)

to12Hour(h) == IF h % 12 = 0 THEN 12 ELSE h % 12

\* TOKEN_REGEX: the alternatives after the bracket, in their order
TOKENS ==
    <<<<"Y", "Y", "Y", "Y">>, <<"Y", "Y">>, <<"M", "M", "M", "M">>, <<"M", "M", "M">>,
      <<"M", "M">>, <<"M">>, <<"D", "o">>, <<"D", "D">>, <<"D">>,
      <<"d", "d", "d", "d">>, <<"d", "d", "d">>, <<"d", "d">>, <<"H", "H">>,
      <<"H">>, <<"h", "h">>, <<"h">>, <<"m", "m">>, <<"m">>, <<"s", "s">>,
      <<"s">>, <<"S", "S", "S">>, <<"A">>, <<"a">>, <<"Z", "Z">>,
      <<"Z">>>>

\* the length of the run of characters other than ] of fmt from offset i
RECURSIVE RunToBracket(_, _)
RunToBracket(fmt, i) ==
    IF i <= Len(fmt) /\ fmt[i] # "]" THEN 1 + RunToBracket(fmt, i + 1) ELSE 0

\* \[([^\]]+)] at offset i: the length of group 1, 0 when there is no match
EscapeLength(fmt, i) ==
    IF CharAt(fmt, i, "[") /\ RunToBracket(fmt, i + 1) > 0
       /\ CharAt(fmt, i + 1 + RunToBracket(fmt, i + 1), "]")
    THEN RunToBracket(fmt, i + 1) ELSE 0

IsTokenAt(fmt, i, token) ==
    i + Len(token) - 1 <= Len(fmt) /\ SubSeq(fmt, i, i + Len(token) - 1) = token

\* the first alternative of TOKENS that matches at offset i, 0 when none does
TokenAt(fmt, i) ==
    IF \E n \in DOMAIN TOKENS : IsTokenAt(fmt, i, TOKENS[n])
    THEN CHOOSE n \in DOMAIN TOKENS :
            /\ IsTokenAt(fmt, i, TOKENS[n])
            /\ \A m \in 1..(n - 1) : ~IsTokenAt(fmt, i, TOKENS[m])
    ELSE 0

Literal(value) == [type |-> 0, value |-> value]

Token(value) == [type |-> 1, value |-> value]

\* tokens.push([0, fmt.slice(lastIndex, index)]) when index > lastIndex
WithLiteral(tokens, fmt, lastIndex, index) ==
    IF index > lastIndex THEN Append(tokens, Literal(SubSeq(fmt, lastIndex, index - 1)))
    ELSE tokens

\* the loop of parseFormatTokens: i the offset the regex tries next,
\* lastIndex the end of the last match
RECURSIVE Tokenize(_, _, _, _)
Tokenize(fmt, i, lastIndex, tokens) ==
    IF i > Len(fmt) THEN WithLiteral(tokens, fmt, lastIndex, Len(fmt) + 1)
    ELSE IF EscapeLength(fmt, i) > 0
    THEN Tokenize(fmt, i + EscapeLength(fmt, i) + 2, i + EscapeLength(fmt, i) + 2,
                  Append(WithLiteral(tokens, fmt, lastIndex, i),
                         Literal(SubSeq(fmt, i + 1, i + EscapeLength(fmt, i)))))
    ELSE IF TokenAt(fmt, i) # 0
    THEN Tokenize(fmt, i + Len(TOKENS[TokenAt(fmt, i)]), i + Len(TOKENS[TokenAt(fmt, i)]),
                  Append(WithLiteral(tokens, fmt, lastIndex, i),
                         Token(TOKENS[TokenAt(fmt, i)])))
    ELSE Tokenize(fmt, i + 1, lastIndex, tokens)

\* parseFormatTokens(fmt): the caches after the call
parseFormatTokens(c, fmt) ==
    IF CacheIndex(c.tokenCache, fmt) # 0 THEN c
    ELSE Stored(Evicted(c, "tokenCache", "tokenCacheSize", MAX_TOKEN_CACHE),
                "tokenCache", "tokenCacheSize", fmt, Tokenize(fmt, 1, 1, <<>>))

\* the tokens the call returns, c the caches after it
FormatTokens(c, fmt) == c.tokenCache[CacheIndex(c.tokenCache, fmt)].value

\* names[i] pushed to parts: an undefined element joins as the empty text
NamePart(c, list, nan, i) == Result(c, FALSE, IF nan THEN <<>> ELSE <<list[i + 1]>>)

StartsWithEn(loc) == Len(loc) >= 2 /\ SubSeq(loc, 1, 2) = <<"e", "n">>

\* formatToken(token, date, locale) for a token of TOKEN_REGEX
formatToken(c, h, f, token, loc) ==
    CASE token = <<"Y", "Y", "Y", "Y">> -> Result(c, FALSE, StringOf(f.nan, f.year))
      [] token = <<"Y", "Y">> ->
            Result(c, FALSE,
                   IF f.nan \/ Len(NumText(f.year)) <= 2 THEN StringOf(f.nan, f.year)
                   ELSE SubSeq(NumText(f.year), Len(NumText(f.year)) - 1,
                               Len(NumText(f.year))))
      [] token = <<"M", "M">> -> Result(c, FALSE, pad2(f.nan, f.month + 1))
      [] token = <<"M">> -> Result(c, FALSE, StringOf(f.nan, f.month + 1))
      [] token = <<"D", "D">> -> Result(c, FALSE, pad2(f.nan, f.date))
      [] token = <<"D">> -> Result(c, FALSE, StringOf(f.nan, f.date))
      [] token = <<"D", "o">> -> Result(c, FALSE, ord(f.nan, f.date))
      [] token = <<"H", "H">> -> Result(c, FALSE, pad2(f.nan, f.hours))
      [] token = <<"H">> -> Result(c, FALSE, StringOf(f.nan, f.hours))
      [] token = <<"h", "h">> -> Result(c, FALSE, pad2(f.nan, to12Hour(f.hours)))
      [] token = <<"h">> -> Result(c, FALSE, StringOf(f.nan, to12Hour(f.hours)))
      [] token = <<"m", "m">> -> Result(c, FALSE, pad2(f.nan, f.minutes))
      [] token = <<"m">> -> Result(c, FALSE, StringOf(f.nan, f.minutes))
      [] token = <<"s", "s">> -> Result(c, FALSE, pad2(f.nan, f.seconds))
      [] token = <<"s">> -> Result(c, FALSE, StringOf(f.nan, f.seconds))
      [] token = <<"S", "S", "S">> -> Result(c, FALSE, pad3(f.nan, f.milliseconds))
      [] token = <<"A">> ->
            IF StartsWithEn(loc) THEN Result(c, FALSE, Meridiem(f))
            ELSE getAmPm(c, f, loc, TRUE)
      [] token = <<"a">> ->
            IF StartsWithEn(loc)
            THEN Result(c, FALSE, IF ~f.nan /\ f.hours < 12 THEN <<"a", "m">>
                                  ELSE <<"p", "m">>)
            ELSE getAmPm(c, f, loc, FALSE)
      [] token = <<"Z">> -> Result(c, FALSE, getOffset(h, f, TRUE))
      [] token = <<"Z", "Z">> -> Result(c, FALSE, getOffset(h, f, FALSE))
      [] token = <<"d", "d", "d", "d">> ->
            NamePart(getLocaleNames(c, loc),
                     LocaleNames(getLocaleNames(c, loc), loc).weekdays, f.nan, f.day)
      [] token = <<"d", "d", "d">> ->
            NamePart(getLocaleNames(c, loc),
                     LocaleNames(getLocaleNames(c, loc), loc).weekdaysShort, f.nan, f.day)
      [] token = <<"d", "d">> ->
            NamePart(getLocaleNames(c, loc),
                     LocaleNames(getLocaleNames(c, loc), loc).weekdaysMin, f.nan, f.day)
      [] token = <<"M", "M", "M", "M">> ->
            NamePart(getLocaleNames(c, loc),
                     LocaleNames(getLocaleNames(c, loc), loc).months, f.nan, f.month)
      [] token = <<"M", "M", "M">> ->
            NamePart(getLocaleNames(c, loc),
                     LocaleNames(getLocaleNames(c, loc), loc).monthsShort, f.nan, f.month)

Joined(r, part) == Result(part.caches, part.threw, r.out \o part.out)

\* the loop of format over the tokens from index i, r the parts so far
RECURSIVE RenderTokens(_, _, _, _, _, _)
RenderTokens(r, h, f, loc, tokens, i) ==
    IF r.threw \/ i > Len(tokens) THEN r
    ELSE IF tokens[i].type = 0
    THEN RenderTokens(Result(r.caches, FALSE, r.out \o tokens[i].value),
                      h, f, loc, tokens, i + 1)
    ELSE RenderTokens(Joined(r, formatToken(r.caches, h, f, tokens[i].value, loc)),
                      h, f, loc, tokens, i + 1)

\* the cases of the switch of getLocalePrecompiled
LocaleFormats ==
    {<<"d", "d", "d", "d", ",", " ", "M", "M", "M", "M", " ", "D", " ", "Y", "Y", "Y", "Y">>,
     <<"d", "d", "d", "d", ",", " ", "M", "M", "M", "M", " ", "D", "o", " ", "Y", "Y", "Y", "Y">>,
     <<"d", "d", "d", "d", ",", " ", "D", " ", "M", "M", "M", "M", " ", "Y", "Y", "Y", "Y">>,
     <<"d", "d", "d", ",", " ", "M", "M", "M", " ", "D", " ", "Y", "Y", "Y", "Y">>,
     <<"d", "d", "d", ",", " ", "D", " ", "M", "M", "M", " ", "Y", "Y", "Y", "Y">>,
     <<"M", "M", "M", "M", " ", "D", ",", " ", "Y", "Y", "Y", "Y">>, <<"D", " ", "M", "M", "M", "M", " ", "Y", "Y", "Y", "Y">>,
     <<"M", "M", "M", " ", "D", ",", " ", "Y", "Y", "Y", "Y">>, <<"D", " ", "M", "M", "M", " ", "Y", "Y", "Y", "Y">>,
     <<"d", "d", "d", "d">>, <<"d", "d", "d">>, <<"M", "M", "M", "M">>, <<"M", "M", "M">>,
     <<"M", "M", "M", "M", " ", "Y", "Y", "Y", "Y">>, <<"M", "M", "M", " ", "Y", "Y", "Y", "Y">>}

CompiledKey(fmt, loc) == fmt \o <<"|">> \o loc

\* getLocalePrecompiled(fmt, locale): the caches after the call; the
\* function stored is the case of the switch and the names it closes over
StoreCompiled(c, fmt, loc) ==
    IF fmt \notin LocaleFormats THEN c
    ELSE Stored(Evicted(c, "compiledCache", "compiledCacheSize", MAX_COMPILED_CACHE),
                "compiledCache", "compiledCacheSize", CompiledKey(fmt, loc),
                [fmt |-> fmt, names |-> LocaleNames(c, loc)])

getLocalePrecompiled(c, fmt, loc) ==
    IF CacheIndex(c.compiledCache, CompiledKey(fmt, loc)) # 0 THEN c
    ELSE StoreCompiled(getLocaleNames(c, loc), fmt, loc)

\* names[i] joined to text with +
NameText(list, nan, i) ==
    IF nan THEN <<"u", "n", "d", "e", "f", "i", "n", "e", "d">> ELSE <<list[i + 1]>>

\* the value of a function that returns names[NaN]
Undefined == <<"[undefined]">>

\* fn(d) for a function fn of the compiled cache
Compiled(fn, f) ==
    CASE fn.fmt = <<"d", "d", "d", "d", ",", " ", "M", "M", "M", "M", " ", "D", " ", "Y", "Y", "Y", "Y">> ->
            NameText(fn.names.weekdays, f.nan, f.day) \o <<",", " ">>
                \o NameText(fn.names.months, f.nan, f.month) \o <<" ">>
                \o StringOf(f.nan, f.date) \o <<" ">> \o Year(f)
      [] fn.fmt = <<"d", "d", "d", "d", ",", " ", "M", "M", "M", "M", " ", "D", "o", " ", "Y", "Y", "Y", "Y">> ->
            NameText(fn.names.weekdays, f.nan, f.day) \o <<",", " ">>
                \o NameText(fn.names.months, f.nan, f.month) \o <<" ">>
                \o ord(f.nan, f.date) \o <<" ">> \o Year(f)
      [] fn.fmt = <<"d", "d", "d", "d", ",", " ", "D", " ", "M", "M", "M", "M", " ", "Y", "Y", "Y", "Y">> ->
            NameText(fn.names.weekdays, f.nan, f.day) \o <<",", " ">>
                \o StringOf(f.nan, f.date) \o <<" ">>
                \o NameText(fn.names.months, f.nan, f.month) \o <<" ">> \o Year(f)
      [] fn.fmt = <<"d", "d", "d", ",", " ", "M", "M", "M", " ", "D", " ", "Y", "Y", "Y", "Y">> ->
            NameText(fn.names.weekdaysShort, f.nan, f.day) \o <<",", " ">>
                \o NameText(fn.names.monthsShort, f.nan, f.month) \o <<" ">>
                \o StringOf(f.nan, f.date) \o <<" ">> \o Year(f)
      [] fn.fmt = <<"d", "d", "d", ",", " ", "D", " ", "M", "M", "M", " ", "Y", "Y", "Y", "Y">> ->
            NameText(fn.names.weekdaysShort, f.nan, f.day) \o <<",", " ">>
                \o StringOf(f.nan, f.date) \o <<" ">>
                \o NameText(fn.names.monthsShort, f.nan, f.month) \o <<" ">> \o Year(f)
      [] fn.fmt = <<"M", "M", "M", "M", " ", "D", ",", " ", "Y", "Y", "Y", "Y">> ->
            NameText(fn.names.months, f.nan, f.month) \o <<" ">>
                \o StringOf(f.nan, f.date) \o <<",", " ">> \o Year(f)
      [] fn.fmt = <<"D", " ", "M", "M", "M", "M", " ", "Y", "Y", "Y", "Y">> ->
            StringOf(f.nan, f.date) \o <<" ">>
                \o NameText(fn.names.months, f.nan, f.month) \o <<" ">> \o Year(f)
      [] fn.fmt = <<"M", "M", "M", " ", "D", ",", " ", "Y", "Y", "Y", "Y">> ->
            NameText(fn.names.monthsShort, f.nan, f.month) \o <<" ">>
                \o StringOf(f.nan, f.date) \o <<",", " ">> \o Year(f)
      [] fn.fmt = <<"D", " ", "M", "M", "M", " ", "Y", "Y", "Y", "Y">> ->
            StringOf(f.nan, f.date) \o <<" ">>
                \o NameText(fn.names.monthsShort, f.nan, f.month) \o <<" ">> \o Year(f)
      [] fn.fmt = <<"d", "d", "d", "d">> ->
            IF f.nan THEN Undefined ELSE <<fn.names.weekdays[f.day + 1]>>
      [] fn.fmt = <<"d", "d", "d">> ->
            IF f.nan THEN Undefined ELSE <<fn.names.weekdaysShort[f.day + 1]>>
      [] fn.fmt = <<"M", "M", "M", "M">> ->
            IF f.nan THEN Undefined ELSE <<fn.names.months[f.month + 1]>>
      [] fn.fmt = <<"M", "M", "M">> ->
            IF f.nan THEN Undefined ELSE <<fn.names.monthsShort[f.month + 1]>>
      [] fn.fmt = <<"M", "M", "M", "M", " ", "Y", "Y", "Y", "Y">> ->
            NameText(fn.names.months, f.nan, f.month) \o <<" ">> \o Year(f)
      [] fn.fmt = <<"M", "M", "M", " ", "Y", "Y", "Y", "Y">> ->
            NameText(fn.names.monthsShort, f.nan, f.month) \o <<" ">> \o Year(f)

PRESETS == {<<"s", "h", "o", "r", "t">>, <<"m", "e", "d", "i", "u", "m">>, <<"l", "o", "n", "g">>, <<"f", "u", "l", "l">>}

TimeSuffix == <<"-", "t", "i", "m", "e">>

\* fmt.endsWith('-time') with fmt.replace('-time', '') in PRESETS: fmt is a
\* preset followed by -time
IsTimePreset(fmt) ==
    /\ Len(fmt) > Len(TimeSuffix)
    /\ SubSeq(fmt, Len(fmt) - Len(TimeSuffix) + 1, Len(fmt)) = TimeSuffix
    /\ SubSeq(fmt, 1, Len(fmt) - Len(TimeSuffix)) \in PRESETS

\* format after the table PRECOMPILED, c the caches after
\* getLocalePrecompiled(fmt, locale)
FormatAfterCompiled(c, h, d, f, fmt, loc) ==
    IF CacheIndex(c.compiledCache, CompiledKey(fmt, loc)) # 0
    THEN Result(c, FALSE,
                Compiled(c.compiledCache[CacheIndex(c.compiledCache,
                                                    CompiledKey(fmt, loc))].value, f))
    ELSE IF fmt \in PRESETS THEN PresetFormat(c, loc, DateStyleKey(fmt), d)
    ELSE IF IsTimePreset(fmt)
    THEN PresetFormat(c, loc,
                      DateTimeStyleKey(SubSeq(fmt, 1, Len(fmt) - Len(TimeSuffix))), d)
    ELSE RenderTokens(Result(parseFormatTokens(c, fmt), FALSE, <<>>), h, f, loc,
                      FormatTokens(parseFormatTokens(c, fmt), fmt), 1)

WithCaches(c, o) == Result(c, o.threw, o.out)

\* the body of format for the Date d and the locale getLocale(ctx) spelled
\* loc: the caches after the call, whether it threw, and the text returned
formatIn(h, c, d, fmt, loc) ==
    IF fmt \in PrecompiledKeys THEN WithCaches(c, PRECOMPILED(h, d, GettersOf(h, d), fmt))
    ELSE FormatAfterCompiled(getLocalePrecompiled(c, fmt, loc), h, d, GettersOf(h, d),
                             fmt, loc)

\* format(ctx, fmt) with the caches c
format(h, c, ctx, fmt) == formatIn(h, c, ctx.d, fmt, LocaleChars(getLocale(ctx)))

\* objs[k].format(fmt)
FormatCall(k, fmt) ==
    /\ Len(calls) < MaxCalls
    /\ k \in DOMAIN objs
    /\ caches' = format(host, caches, objs[k], fmt).caches
    /\ calls' = Append(calls, [NoCall EXCEPT !.op = "format", !.recv = k,
                                  !.pattern = fmt,
                                  !.threw = format(host, caches, objs[k], fmt).threw,
                                  !.out = format(host, caches, objs[k], fmt).out])
    /\ UNCHANGED <<host, globalConfig, objs, arg, batches, durs>>

(***************************************************************************)
(* SpecRoundTrip: an instant from a canonical date YYYY-MM-DD or a full    *)
(* ISO text with offset, formatted with the pattern of the same shape.     *)
(***************************************************************************)
DatePattern == <<"Y", "Y", "Y", "Y", "-", "M", "M", "-", "D", "D">>

OffsetPattern == <<"Y", "Y", "Y", "Y", "-", "M", "M", "-", "D", "D", "T", "H", "H", ":", "m", "m", ":", "s", "s", ".", "S", "S", "S", "Z">>

CanonicalDates ==
    {DateText(2026, 1, 21), DateText(2024, 2, 29), DateText(1999, 12, 31),
     DateText(1000, 1, 1), DateText(999, 12, 31), DateText(100, 3, 1),
     DateText(99, 12, 31), DateText(0, 1, 1)}

CanonicalOffsets == {<<"Z">>, <<"+", "0", "5", ":", "3", "0">>, <<"-", "0", "8", ":", "0", "0">>}

CanonicalInstants ==
    {DateText(y, 6, 15) \o TimeText(hh, 20, 30, 456) \o z :
        y \in {2026, 999}, hh \in {0, 23}, z \in CanonicalOffsets}

InitRoundTrip ==
    InitWith({[NoArg EXCEPT !.text = t, !.pattern = DatePattern] : t \in CanonicalDates}
             \cup {[NoArg EXCEPT !.text = t, !.pattern = OffsetPattern] :
                      t \in CanonicalInstants})

NextRoundTrip ==
    \/ NanoCall(arg.text, arg.locale)
    \/ \E k \in DOMAIN objs : FormatCall(k, arg.pattern)

SpecRoundTrip == InitRoundTrip /\ [][NextRoundTrip]_vars

\* the instant a text denotes: nano(text)
Denoted(h, text) == OrNative(h, text, fastParseISO(h, text))

RoundTrips11(h, ctx, call) ==
    /\ ~call.threw
    /\ call.pattern = DatePattern => call.out = ctx.input.text
    /\ call.pattern = OffsetPattern => Denoted(h, call.out) = ctx.d

\* C11: formatting the instant parsed from a canonical YYYY-MM-DD text of a
\* real date with the pattern YYYY-MM-DD gives the text back, and formatting
\* the instant parsed from a canonical full ISO text with offset with the
\* full ISO pattern with offset gives a text that denotes the same instant.
C11_FormatParseRoundTrip ==
    \A c \in DOMAIN calls :
        calls[c].op = "format" => RoundTrips11(host, objs[calls[c].recv], calls[c])

(***************************************************************************)
(* SpecFormat: one instant, valid or invalid, with or without a locale,    *)
(* formatted with one pattern: a key of PRECOMPILED, a case of             *)
(* getLocalePrecompiled, a preset with or without -time, or a pattern of   *)
(* the tokenizer.                                                          *)
(***************************************************************************)
FormatTexts ==
    {DateText(2026, 1, 21) \o TimeText(10, 20, 30, 456),
     DateText(2026, 1, 1) \o TimeText(0, 5, 0, 7),
     DateText(2024, 2, 29) \o TimeText(12, 0, 59, 0),
     DateText(999, 12, 31) \o TimeText(23, 59, 59, 999),
     Garbage}

FormatLocales == {"undefined", "tr", "en", "x|en"}

TimePresets == {preset \o TimeSuffix : preset \in PRESETS}

TokenPatterns ==
    {<<"h", "h", ":", "m", "m", " ", "a">>, <<"[", "a", "t", "]", " ", "D", "o", " ", "M", "M", "M", " ", "Y", "Y">>, <<"d", "d", " ", "Z", "Z">>,
     <<"H", ":", "m", ":", "s", " ", "[", "Z", "]">>, <<"d", "d", "d", "d", "|", "x">>}

FormatPatterns ==
    PrecompiledKeys \cup LocaleFormats \cup PRESETS \cup TimePresets \cup TokenPatterns

InitFormat ==
    InitWith({[NoArg EXCEPT !.text = t, !.locale = l, !.pattern = p] :
                 t \in FormatTexts, l \in FormatLocales, p \in FormatPatterns})

NextFormat ==
    \/ NanoCall(arg.text, arg.locale)
    \/ \E k \in DOMAIN objs : FormatCall(k, arg.pattern)

SpecFormat == InitFormat /\ [][NextFormat]_vars

\* what the tokenizer and formatToken give for fmt, from empty caches
GenericFormat(h, ctx, fmt) ==
    RenderTokens(Result(EmptyCaches, FALSE, <<>>), h, GettersOf(h, ctx.d),
                 LocaleChars(getLocale(ctx)), Tokenize(fmt, 1, 1, <<>>), 1)

SameOutput(call, r) == call.threw = r.threw /\ call.out = r.out

\* C12: for a pattern that is a key of PRECOMPILED, format returns exactly
\* what the tokenizer and the token renderer produce for the same pattern,
\* instant and locale.
C12_FastPathMatchesGeneric ==
    \A c \in DOMAIN calls :
        (calls[c].op = "format" /\ calls[c].pattern \in PrecompiledKeys)
          => SameOutput(calls[c],
                        GenericFormat(host, objs[calls[c].recv], calls[c].pattern))

\* C17: format on an invalid instant returns a text and does not throw,
\* whatever the pattern.
C17_InvalidFormatsToText ==
    \A c \in DOMAIN calls :
        (calls[c].op = "format" /\ objs[calls[c].recv].d.nan)
          => ~calls[c].threw /\ calls[c].out # Undefined

(***************************************************************************)
(* calendar (the calendar strings and their cache).  The text returned     *)
(* depends on the clock and is not modelled: the call is recorded with     *)
(* whether it threw, and with its effect on the cache.                     *)
(***************************************************************************)
\* locale.split('-')[0]
RECURSIVE RunToHyphen(_, _)
RunToHyphen(loc, i) ==
    IF i <= Len(loc) /\ loc[i] # "-" THEN 1 + RunToHyphen(loc, i + 1) ELSE 0

CalendarLanguages ==
    {<<"e", "n">>, <<"t", "r">>, <<"d", "e">>, <<"f", "r">>, <<"e", "s">>,
     <<"j", "a">>, <<"z", "h">>, <<"k", "o">>, <<"a", "r">>, <<"r", "u">>}

\* strings[lang] || strings.en, named by its language
CalendarStrings(loc) ==
    IF SubSeq(loc, 1, RunToHyphen(loc, 1)) \in CalendarLanguages
    THEN SubSeq(loc, 1, RunToHyphen(loc, 1)) ELSE <<"e", "n">>

\* getCalendarStrings(locale): the caches after the call
getCalendarStrings(c, loc) ==
    IF CacheIndex(c.calendarStringsCache, loc) # 0 THEN c
    ELSE [c EXCEPT !.calendarStringsCache = Append(@, Entry(loc, CalendarStrings(loc)))]

\* new Intl.DateTimeFormat(locale, ..).format(d) throws before the strings
\* are asked for
calendarThrows(ctx, loc) == ctx.d.nan \/ ~IntlValid(loc)

\* the locale of calendar: ctx._l || 'en'
CalendarLocale(ctx) == IF Falsy(ctx.l) THEN "en" ELSE ctx.l

\* objs[k].calendar()
CalendarCall(k) ==
    /\ Len(calls) < MaxCalls
    /\ k \in DOMAIN objs
    /\ caches' = IF calendarThrows(objs[k], LocaleChars(CalendarLocale(objs[k])))
                 THEN caches
                 ELSE getCalendarStrings(caches, LocaleChars(CalendarLocale(objs[k])))
    /\ calls' = Append(calls, [NoCall EXCEPT !.op = "calendar", !.recv = k,
                                  !.threw = calendarThrows(objs[k],
                                      LocaleChars(CalendarLocale(objs[k])))])
    /\ UNCHANGED <<host, globalConfig, objs, arg, batches, durs>>

(***************************************************************************)
(* SpecCache: format and calendar calls on three instants that differ in   *)
(* their locale, started with empty caches or with the caches as they are  *)
(* after formatting with as many distinct locales and patterns as the      *)
(* token cache or the formatter cache holds.                               *)
(***************************************************************************)
FillerLocale(n) == <<"t", "r", "-">> \o Pad3(n)

FillerPattern(n) == <<"#">> \o Pad3(n)

\* the caches after calendar() and format('short'), format('dddd') and
\* format of the n-th filler pattern on an instant with the n-th filler locale
WarmedBy(h, c, n) ==
    getCalendarStrings(
        formatIn(h,
                 formatIn(h, formatIn(h, c, TimeValue(0, 0), <<"s", "h", "o", "r", "t">>,
                                      FillerLocale(n)).caches,
                          TimeValue(0, 0), <<"d", "d", "d", "d">>, FillerLocale(n)).caches,
                 TimeValue(0, 0), FillerPattern(n), FillerLocale(n)).caches,
        FillerLocale(n))

\* the caches c after the fillers first..last in turn, none of them used
\* before; the range is halved to keep the evaluation shallow
RECURSIVE WarmedFrom(_, _, _, _)
WarmedFrom(h, c, first, last) ==
    IF first > last \/ CacheIndex(c.localeNameCache, FillerLocale(first)) # 0 THEN c
    ELSE IF first = last THEN WarmedBy(h, c, first)
    ELSE WarmedFrom(h, WarmedFrom(h, c, first, (first + last) \div 2),
                    ((first + last) \div 2) + 1, last)

Warmed(h, n) == WarmedFrom(h, EmptyCaches, 1, n)

CacheLocales == <<"tr", "en", "x|en">>

CachePatterns ==
    {<<"d", "d", "d", "d">>, <<"d", "d", "d", "d", "|", "x">>, <<"s", "h", "o", "r", "t">>,
     <<"h", "h", ":", "m", "m", " ", "a">>, <<"M", "M", "M", " ", "Y", "Y", "Y", "Y">>}

CacheText == DateText(2026, 1, 21) \o TimeText(10, 20, 30, 456)

InitCache ==
    /\ host \in {h \in ArithHosts : h.tz = 0}
    /\ globalConfig = DefaultConfig
    /\ objs = [k \in DOMAIN CacheLocales |->
                 nano(host, DefaultConfig, StringInput(CacheText), CacheLocales[k]).target]
    /\ calls = <<>>
    /\ arg = NoArg
    /\ caches \in {EmptyCaches, Warmed(host, MAX_TOKEN_CACHE),
                   Warmed(host, MAX_FORMATTER_CACHE)}
    /\ batches = <<>>
    /\ durs = <<>>

NextCache ==
    \/ \E k \in DOMAIN objs, p \in CachePatterns : FormatCall(k, p)
    \/ \E k \in DOMAIN objs : CalendarCall(k)

SpecCache == InitCache /\ [][NextCache]_vars

\* C13: every format call returns what the same call returns with all
\* caches empty, whatever calls came before it and whatever was evicted.
C13_CachesAreTransparent ==
    \A c \in DOMAIN calls :
        calls[c].op = "format"
          => SameOutput(calls[c],
                        format(host, EmptyCaches, objs[calls[c].recv], calls[c].pattern))

\* C14: each cache holds no more entries than a fixed capacity; the name
\* tables and the calendar strings have no capacity of their own and are
\* held to the largest capacity the module defines.
C14_CachesAreBounded ==
    /\ Len(caches.tokenCache) <= MAX_TOKEN_CACHE
    /\ Len(caches.compiledCache) <= MAX_COMPILED_CACHE
    /\ Len(caches.formatterCache) <= MAX_FORMATTER_CACHE
    /\ Len(caches.localeNameCache) <= MAX_FORMATTER_CACHE
    /\ Len(caches.calendarStringsCache) <= MAX_FORMATTER_CACHE

(***************************************************************************)
(* Duration components and division.  A Duration whose _ms is Infinity or  *)
(* NaN has no magnitude: its abs is NaN and notFinite names the value.     *)
(***************************************************************************)
NotFinite(neg, value) == [neg |-> neg, abs |-> NaN, notFinite |-> value]

IsFiniteDuration(d) == ~d.abs.nan

\* magnitude / n for a divisor n > 0 that divides it: the day count's
\* remainder is carried into the milliseconds
DividedBy(abs, n) ==
    TimeValue(abs.day \div n, ((abs.day % n) * MS_PER_DAY + abs.ms) \div n)

\* divide(divisor): new Duration(this._ms / divisor); x / 0 is Infinity with
\* the sign of x, 0 / 0 is NaN, and Infinity / n is Infinity with the sign
\* of the quotient
divide(this, divisor) ==
    IF ~IsFiniteDuration(this)
    THEN (IF this.notFinite = "NaN" THEN this
          ELSE NotFinite(this.neg # (divisor < 0), "Infinity"))
    ELSE IF divisor = 0
    THEN (IF this.abs = Zero THEN NotFinite(FALSE, "NaN")
          ELSE NotFinite(this.neg, "Infinity"))
    ELSE Duration(this.neg # (divisor < 0), DividedBy(this.abs, Abs(divisor)))

DivideCall(k, divisor) ==
    /\ Len(calls) < MaxCalls
    /\ k \in DOMAIN durs
    /\ durs' = Append(durs, divide(durs[k], divisor))
    /\ calls' = Append(calls, [NoCall EXCEPT !.op = "divide", !.recv = k,
                                             !.value = divisor, !.ret = Len(durs) + 1])
    /\ UNCHANGED <<host, globalConfig, objs, arg, caches, batches>>

\* toObject() of a finite Duration
ToObjectCall(k) ==
    /\ Len(calls) < MaxCalls
    /\ k \in DOMAIN durs
    /\ IsFiniteDuration(durs[k])
    /\ calls' = Append(calls, [NoCall EXCEPT !.op = "toObject", !.recv = k,
                                             !.out = toObject(durs[k])])
    /\ UNCHANGED <<host, globalConfig, objs, arg, caches, batches, durs>>

(***************************************************************************)
(* SpecDivide: a Duration from a number of milliseconds, its components,   *)
(* and its quotients by a divisor that is zero or divides it.              *)
(***************************************************************************)
\* multiples of 16: two divisions in a row stay whole
DivisibleMs == {0, 1600, 3723008, 37746000}

Divisors == {0, 1, -2, 4}

InitDivide ==
    InitWith({[NoArg EXCEPT !.dur = Duration(neg, TimeValue(d, ms)), !.value = n] :
                 neg \in BOOLEAN, d \in DurationDays, ms \in DivisibleMs, n \in Divisors})

NextDivide ==
    \/ DurationCall(arg.dur.neg, arg.dur.abs)
    \/ \E k \in DOMAIN durs : DivideCall(k, arg.value)
    \/ \E k \in DOMAIN durs : ToObjectCall(k)

SpecDivide == InitDivide /\ [][NextDivide]_vars

\* C21: divide with a zero divisor raises an error or returns a designated
\* value, never a Duration whose millis is Infinity or NaN.
C21_DivideByZeroGuarded ==
    \A c \in DOMAIN calls :
        (calls[c].op = "divide" /\ calls[c].value = 0)
          => calls[c].threw \/ IsFiniteDuration(durs[calls[c].ret])

\* the sum of the components of obj, each times its unit
Recomposed(obj) ==
    Sum(Sum(Scale(obj.years, MS_PER_YEAR), Scale(obj.months, MS_PER_MONTH)),
        TimeValue(obj.days,
                  obj.hours * MS_PER_HOUR + obj.minutes * MS_PER_MINUTE
                    + obj.seconds * MS_PER_SECOND + obj.milliseconds))

\* C30: the components of a Duration recompose to its millis:
\* years*MS_PER_YEAR + months*MS_PER_MONTH + days*MS_PER_DAY + hours*MS_PER_HOUR
\* + minutes*MS_PER_MINUTE + seconds*1000 + milliseconds.
C30_ComponentsRecompose ==
    \A c \in DOMAIN calls :
        calls[c].op = "toObject" => Recomposed(calls[c].out) = durs[calls[c].recv].abs

(***************************************************************************)
(* SpecLocale: the default locale of config() and resetConfig(), instants  *)
(* made by nano(text) with no locale argument, and their format().         *)
(***************************************************************************)
LocaleOptions ==
    {[NoOptions EXCEPT !.hasLocale = TRUE, !.locale = l] : l \in {"tr", "en"}}

LocalePatterns == {<<"d", "d", "d", "d">>, <<"M", "M", "M", "M", " ", "Y", "Y", "Y", "Y">>, <<"Y", "Y", "Y", "Y", "-", "M", "M", "-", "D", "D">>}

LocaleTexts ==
    {DateText(2026, 1, 21) \o TimeText(10, 20, 30, 456),
     DateText(2024, 2, 29) \o TimeText(12, 0, 59, 0)}

InitLocale ==
    InitWith({[NoArg EXCEPT !.text = t, !.pattern = p] :
                 t \in LocaleTexts, p \in LocalePatterns})

NextLocale ==
    \/ \E o \in LocaleOptions : ConfigCall(o)
    \/ ResetConfigCall
    \/ NanoCall(arg.text, "undefined")
    \/ \E k \in DOMAIN objs : FormatCall(k, arg.pattern)

SpecLocale == InitLocale /\ [][NextLocale]_vars

\* the default locale the configuration calls among the first n calls of the
\* log leave: null initially and after resetConfig, else the locale of the
\* latest config call that supplied one
RECURSIVE LocaleAfter(_)
LocaleAfter(n) ==
    IF n = 0 THEN "null"
    ELSE IF calls[n].op = "resetConfig" THEN "null"
    ELSE IF calls[n].op = "config" /\ calls[n].options.hasLocale
    THEN calls[n].options.locale
    ELSE LocaleAfter(n - 1)

\* call c formats an instant that call n made by nano(text) with no locale
FormatsCreationOf(c, n) ==
    /\ calls[c].op = "format"
    /\ calls[n].op = "nano" /\ ~calls[n].threw
    /\ Falsy(calls[n].locale)
    /\ calls[n].ret = calls[c].recv

\* C22: an instant made by nano(x) with no locale argument while the
\* configured default locale is L formats as the same instant with locale L
C22_ConfiguredLocaleIsDefault ==
    \A c \in DOMAIN calls : \A n \in DOMAIN calls :
        (FormatsCreationOf(c, n) /\ LocaleAfter(n - 1) # "null")
            => SameOutput(calls[c],
                          format(host, EmptyCaches,
                                 [objs[calls[c].recv] EXCEPT !.l = LocaleAfter(n - 1)],
                                 calls[c].pattern))

(***************************************************************************)
(* SpecZone: texts of the fast parser's grammar with a real calendar date, *)
(* a time of day in range and nothing, Z or a signed offset after it, on   *)
(* hosts of three UTC offsets; the factory and the validity query.         *)
(***************************************************************************)
ZoneDates ==
    {DateText(2026, 1, 21), DateText(2024, 2, 29), DateText(1969, 12, 31),
     DateText(2026, 3, 1), DateText(100, 1, 1), DateText(99, 12, 31),
     DateText(50, 6, 15)}

ZoneTimes ==
    {<<>>, Chars("T10:20"), Chars("T10:20:30.4"), TimeText(0, 0, 0, 0),
     TimeText(23, 59, 59, 999)}

ZoneOffsets ==
    {<<>>, <<"Z">>, Chars("+05:30"), Chars("-08:00"), Chars("+0530"),
     <<"+", "0", "0", ":", "0", "0">>, <<"-", "1", "2", ":", "4", "5">>}

ZoneTexts == {d \o t \o z : d \in ZoneDates, t \in ZoneTimes, z \in ZoneOffsets}

InitZone ==
    /\ InitWith({[NoArg EXCEPT !.text = t] : t \in ZoneTexts})
    /\ host \in ArithHosts

NextZone ==
    \/ NanoCall(arg.text, "undefined")
    \/ \E k \in DOMAIN objs : IsValidCall(k)

SpecZone == InitZone /\ [][NextZone]_vars

\* UTC(F): the time value whose UTC calendar fields are the fields the
\* groups of a match spell
UTCOfFields(m) ==
    TimeValue(MakeDay(m.g1, m.g2 - 1, m.g3),
              MakeTime(m.g4, m.g5, m.g6, m.g7 * Pow10(3 - m.fracLen)))

\* UTC(F) minus the minutes of a '+' offset, plus those of a '-' offset
OffsetApplied(m) ==
    IF m.sign = "+" THEN PlusMs(UTCOfFields(m), -(m.g9 * 60 + m.g10), MS_PER_MINUTE)
    ELSE IF m.sign = "-" THEN PlusMs(UTCOfFields(m), m.g9 * 60 + m.g10, MS_PER_MINUTE)
    ELSE UTCOfFields(m)

HasZone(m) == m.ok /\ (m.hasZ \/ m.sign # "")

\* C23: the instant parsed from a text with a signed offset is UTC(F) minus
\* the offset's minutes for '+' and plus them for '-'; with a trailing Z it
\* is UTC(F)
C23_OffsetAppliedToUTC ==
    \A c \in DOMAIN calls :
        (calls[c].op = "nano" /\ ~calls[c].threw /\ HasZone(IsoRegexExec(calls[c].text)))
            => objs[calls[c].ret].d = OffsetApplied(IsoRegexExec(calls[c].text))

\* the instant the validity query of call c was asked of came from text of
\* the grammar whose year-month-day is a real calendar date
RealDateText(text) ==
    /\ IsoRegexExec(text).ok
    /\ isCalendarValid(NumberAt(text, 1, 4), NumberAt(text, 6, 2), NumberAt(text, 9, 2))

\* C28: isValid() is true of every instant built from a text of the fast
\* parser's grammar whose year-month-day is a real calendar date, whatever
\* the time of day, the Z or offset of the text and the host's UTC offset
C28_RealDateTextIsValid ==
    \A c \in DOMAIN calls :
        (/\ calls[c].op = "isValid"
         /\ objs[calls[c].recv].input.defined
         /\ RealDateText(objs[calls[c].recv].input.text))
            => calls[c].result

(***************************************************************************)
(* SpecSet: set(unit, value) on an instant at a month end, a leap day or   *)
(* mid-month, with a value of the unit's own range.                        *)
(***************************************************************************)
SetTexts ==
    {DateText(2024, 1, 31) \o TimeText(10, 20, 30, 400),
     DateText(2024, 2, 29) \o TimeText(23, 59, 59, 999),
     DateText(2026, 3, 15) \o TimeText(0, 0, 0, 0),
     DateText(2026, 4, 30) \o TimeText(12, 0, 0, 1)}

SetFieldUnits == {"year", "month", "day", "hour", "minute", "second", "millisecond"}

\* values within the normal range of the field of unit u (months 0-based,
\* as setMonth and getMonth count them)
SetRange(u) ==
    CASE u = "year" -> {1999, 2024, 2025}
      [] u = "month" -> {0, 1, 3, 11}
      [] u = "day" -> {1, 15, 28, 31}
      [] u = "hour" -> {0, 13, 23}
      [] u = "minute" -> {0, 59}
      [] u = "second" -> {0, 59}
      [] u = "millisecond" -> {0, 999}

InitSet ==
    /\ InitWith({[NoArg EXCEPT !.text = t, !.unit = u, !.value = v] :
                    t \in SetTexts, u \in SetFieldUnits, v \in 0..2025})
    /\ arg.value \in SetRange(arg.unit)
    /\ host \in ArithHosts

NextSet ==
    \/ NanoCall(arg.text, "undefined")
    \/ \E k \in DOMAIN objs : SetCall(k, arg.unit, arg.value)

SpecSet == InitSet /\ [][NextSet]_vars

\* the local calendar field of unit u among the fields f
FieldOf(f, u) ==
    CASE u = "year" -> f.year
      [] u = "month" -> f.month
      [] u = "day" -> f.date
      [] u = "hour" -> f.hours
      [] u = "minute" -> f.minutes
      [] u = "second" -> f.seconds
      [] u = "millisecond" -> f.milliseconds

\* the fields after are the fields before with the one of unit u set to v
OnlyFieldSet(before, after, u, v) ==
    /\ FieldOf(after, u) = v
    /\ \A w \in SetFieldUnits \ {u} : FieldOf(after, w) = FieldOf(before, w)

\* C24: set(unit, v) returns an instant whose local calendar field of that
\* unit is v and whose other local calendar fields are the receiver's, for
\* year, month, day of month, hour, minute, second and millisecond and v in
\* the field's normal range
C24_SetOverwritesOneField ==
    \A c \in DOMAIN calls :
        (calls[c].op = "set" /\ ~calls[c].threw /\ ~objs[calls[c].recv].d.nan)
            => OnlyFieldSet(LocalFields(host, objs[calls[c].recv].d),
                            LocalFields(host, objs[calls[c].ret].d),
                            calls[c].unit, calls[c].value)

(***************************************************************************)
(* utils.js: diff.  The module has its own unit table (no quarter, no      *)
(* isoWeek) and its own normalizeUnit, UNIT_MAP[unit] || unit.  A result   *)
(* with precise = false is result | 0: truncated, then ToInt32.            *)
(***************************************************************************)
UtilsUnits ==
    {"y", "year", "years", "M", "month", "months", "w", "week", "weeks",
     "d", "day", "days", "h", "hour", "hours", "m", "minute", "minutes",
     "s", "second", "seconds", "ms", "millisecond", "milliseconds"}

utilsNormalizeUnit(unit) ==
    IF unit \in UtilsUnits THEN UNIT_MAP[unit]
    ELSE IF unit \in ObjectPrototypeKeys THEN Inherited ELSE unit

\* a + b in 32-bit two's complement, for a and b of 32 bits
Int32Add(a, b) ==
    IF a > 0 /\ b > 0 /\ a > 2147483647 - b
    THEN (a - 2147483647 - 1) + (b - 2147483647 - 1)
    ELSE IF a < 0 /\ b < 0 /\ a < (-2147483647 - 1) - b
    THEN (a + 2147483647 + 1) + (b + 2147483647 + 1)
    ELSE a + b

Int32Negate(a) == IF a = -2147483647 - 1 THEN a ELSE -a

\* ToInt32(a * n) for n >= 0, by doubling
Int32Doubled(half, rest) == Int32Add(Int32Add(half, half), rest)

RECURSIVE Int32Times(_, _)
Int32Times(a, n) ==
    IF n = 0 THEN 0
    ELSE Int32Doubled(Int32Times(a, n \div 2), IF n % 2 = 1 THEN a ELSE 0)

\* thisTime - otherTime as a sign and a magnitude
SignedDifference(a, b) ==
    IF Earlier(a, b) THEN [neg |-> TRUE, abs |-> Difference(b, a)]
    ELSE [neg |-> FALSE, abs |-> Difference(a, b)]

\* (diffMs / unitMs) | 0 for unitMs dividing MS_PER_DAY
Int32Quotient(diffMs, unitMs) ==
    IF diffMs.neg
    THEN Int32Negate(Int32Add(Int32Times(MS_PER_DAY \div unitMs, diffMs.abs.day),
                              diffMs.abs.ms \div unitMs))
    ELSE Int32Add(Int32Times(MS_PER_DAY \div unitMs, diffMs.abs.day),
                  diffMs.abs.ms \div unitMs)

\* monthDiff(a, b) on the local fields of the two Dates
monthDiff(a, b) ==
    (a.year - b.year) * 12 + (a.month - b.month)
        - (IF a.date - b.date < 0 THEN 1 ELSE 0)

\* n / 12 truncated toward zero
TruncatedBy12(n) == IF n < 0 THEN -((-n) \div 12) ELSE n \div 12

DiffOf(h, a, b, u) ==
    CASE u = "year" -> TruncatedBy12(monthDiff(LocalFields(h, a), LocalFields(h, b)))
      [] u = "month" -> monthDiff(LocalFields(h, a), LocalFields(h, b))
      [] u = "week" ->
             IF SignedDifference(a, b).neg THEN -(SignedDifference(a, b).abs.day \div 7)
             ELSE SignedDifference(a, b).abs.day \div 7
      [] u = "day" -> Int32Quotient(SignedDifference(a, b), MS_PER_DAY)
      [] u = "hour" -> Int32Quotient(SignedDifference(a, b), MS_PER_HOUR)
      [] u = "minute" -> Int32Quotient(SignedDifference(a, b), MS_PER_MINUTE)
      [] u = "second" -> Int32Quotient(SignedDifference(a, b), MS_PER_SECOND)
      [] OTHER -> Int32Quotient(SignedDifference(a, b), 1)

\* diff(ctx, other, unit) with precise = false, other a NanoDate; NaN | 0
\* is 0
diff(h, ctx, other, unit) ==
    IF ctx.d.nan \/ other.d.nan THEN 0
    ELSE DiffOf(h, ctx.d, other.d, utilsNormalizeUnit(unit))

\* objs[k].diff(objs[j], unit)
DiffCall(k, j, unit) ==
    /\ Len(calls) < MaxCalls
    /\ k \in DOMAIN objs /\ j \in DOMAIN objs
    /\ calls' = Append(calls, [NoCall EXCEPT !.op = "diff", !.recv = k, !.other = j,
                                  !.unit = unit,
                                  !.number = diff(host, objs[k], objs[j], unit)])
    /\ UNCHANGED <<host, globalConfig, objs, arg, caches, batches, durs>>

(***************************************************************************)
(* SpecDiff: two instants from local date-time texts days, months and      *)
(* decades apart, and their difference in one unit.                        *)
(***************************************************************************)
DiffTexts ==
    {DateText(2026, 1, 15) \o TimeText(10, 0, 0, 0),
     DateText(2026, 1, 16) \o TimeText(9, 59, 59, 999),
     DateText(2026, 1, 31) \o TimeText(23, 59, 59, 999),
     DateText(2026, 3, 10) \o TimeText(10, 0, 0, 0),
     DateText(2027, 1, 15) \o TimeText(9, 0, 0, 0),
     DateText(1950, 1, 1) \o TimeText(0, 0, 0, 0)}

DiffUnits ==
    {"year", "months", "week", "d", "hour", "minute", "second", "millisecond"}

InitDiff ==
    /\ InitWith([text : DiffTexts, other : DiffTexts, unit : DiffUnits])
    /\ host \in ArithHosts

NextDiff ==
    \/ NanoCall(arg.text, "undefined")
    \/ NanoCall(arg.other, "undefined")
    \/ \E k, j \in DOMAIN objs : DiffCall(k, j, arg.unit)

SpecDiff == InitDiff /\ [][NextDiff]_vars

\* the length of a fixed-length unit as days and milliseconds
UnitLength(u) ==
    CASE u = "week" -> TimeValue(7, 0)
      [] u = "day" -> TimeValue(1, 0)
      [] u = "hour" -> TimeValue(0, MS_PER_HOUR)
      [] u = "minute" -> TimeValue(0, MS_PER_MINUTE)
      [] u = "second" -> TimeValue(0, MS_PER_SECOND)
      [] u = "millisecond" -> TimeValue(0, 1)

\* n is the difference of magnitude abs in units of length len, truncated:
\* n * len <= abs < (n + 1) * len, by days and milliseconds
IsTruncatedQuotient(n, abs, len) ==
    /\ n >= 0
    /\ IF len.day > 0 THEN n = abs.day \div len.day
       ELSE /\ n \div (MS_PER_DAY \div len.ms) = abs.day
            /\ n % (MS_PER_DAY \div len.ms) = abs.ms \div len.ms

\* the whole calendar months from the local fields g up to the local fields f
WholeMonths(f, g) ==
    (f.year - g.year) * 12 + (f.month - g.month)
        - (IF f.date < g.date \/ (f.date = g.date /\ f.time < g.time) THEN 1 ELSE 0)

\* the calendar months from b to a, truncated toward zero
TruncatedMonths(h, a, b) ==
    IF Earlier(a, b) THEN -WholeMonths(LocalFields(h, b), LocalFields(h, a))
    ELSE WholeMonths(LocalFields(h, a), LocalFields(h, b))

\* n is the exact difference a - b in unit u truncated toward zero
IsTruncatedDifference(n, h, a, b, u) ==
    CASE u = "month" -> n = TruncatedMonths(h, a, b)
      [] u = "year" -> n = TruncatedBy12(TruncatedMonths(h, a, b))
      [] OTHER -> /\ (n < 0) => SignedDifference(a, b).neg
                  /\ (n > 0) => ~SignedDifference(a, b).neg
                  /\ IsTruncatedQuotient(Abs(n), SignedDifference(a, b).abs, UnitLength(u))

\* C25: a.diff(b, unit) with precise = false is the exact difference in
\* that unit truncated toward zero, whatever its magnitude
C25_DiffTruncatesTowardZero ==
    \A c \in DOMAIN calls :
        (/\ calls[c].op = "diff"
         /\ ~objs[calls[c].recv].d.nan /\ ~objs[calls[c].other].d.nan)
            => IsTruncatedDifference(calls[c].number, host, objs[calls[c].recv].d,
                                     objs[calls[c].other].d,
                                     utilsNormalizeUnit(calls[c].unit))

(***************************************************************************)
(* utils.js: diffBusinessDays.  The loop steps current one local day at a  *)
(* time while current < end and counts the days that are neither weekend   *)
(* nor holiday.                                                            *)
(***************************************************************************)
RECURSIVE BusinessCount(_, _, _, _, _)
BusinessCounted(h, next, dayOfWeek, end, holidaySet, count) ==
    IF dayOfWeek = 0 \/ dayOfWeek = 6 \/ toDateString(h, next) \in holidaySet
    THEN BusinessCount(h, next, end, holidaySet, count)
    ELSE BusinessCount(h, next, end, holidaySet, count + 1)

BusinessCount(h, current, end, holidaySet, count) ==
    IF ~Earlier(current, end) THEN count
    ELSE BusinessCounted(h, BusinessNext(h, current, LocalFields(h, current), 1),
                         LocalFields(h, BusinessNext(h, current,
                                                     LocalFields(h, current), 1)).day,
                         end, holidaySet, count)

\* diffBusinessDays(ctx, other, holidays), other a NanoDate; with an
\* invalid Date on either side the loop does not run
diffBusinessDays(h, ctx, other, holidays) ==
    IF ctx.d.nan \/ other.d.nan THEN 0
    ELSE IF Earlier(other.d, ctx.d)
    THEN BusinessCount(h, other.d, ctx.d, buildHolidaySet(h, holidays), 0)
    ELSE -BusinessCount(h, ctx.d, other.d, buildHolidaySet(h, holidays), 0)

\* objs[k].diffBusinessDays(objs[j], holidays)
DiffBusinessDaysCall(k, j, holidays) ==
    /\ Len(calls) < MaxCalls
    /\ k \in DOMAIN objs /\ j \in DOMAIN objs
    /\ calls' = Append(calls, [NoCall EXCEPT !.op = "diffBusinessDays", !.recv = k,
                                  !.other = j, !.holidays = holidays,
                                  !.number = diffBusinessDays(host, objs[k], objs[j],
                                                              holidays)])
    /\ UNCHANGED <<host, globalConfig, objs, arg, caches, batches, durs>>

(***************************************************************************)
(* SpecBusinessDiff: from a Thursday, a Monday and a Friday evening, n     *)
(* business days away and the business days counted back.                  *)
(***************************************************************************)
BusinessDayTexts ==
    {DateText(2026, 1, 22),
     DateText(2026, 1, 26) \o TimeText(9, 30, 15, 250),
     DateText(2026, 1, 23) \o TimeText(18, 0, 0, 0)}

BusinessDiffAmounts == {-6, -1, 0, 1, 2, 6}

BusinessDiffHolidays ==
    {{},
     {DateText(2026, 1, 27)},
     {DateText(2026, 1, 20), DateText(2026, 1, 21), DateText(2026, 1, 27),
      DateText(2026, 1, 28)},
     {DateText(2026, 1, 24), DateText(2026, 1, 25)}}

InitBusinessDiff ==
    /\ InitWith({[NoArg EXCEPT !.text = t, !.value = n, !.holidays = hs] :
                    t \in BusinessDayTexts, n \in BusinessDiffAmounts,
                    hs \in BusinessDiffHolidays})
    /\ host \in ArithHosts

NextBusinessDiff ==
    \/ NanoCall(arg.text, "undefined")
    \/ \E k \in DOMAIN objs : AddBusinessDaysCall(k, arg.value, arg.holidays)
    \/ \E k, j \in DOMAIN objs : DiffBusinessDaysCall(k, j, arg.holidays)

SpecBusinessDiff == InitBusinessDiff /\ [][NextBusinessDiff]_vars

\* call c counts from a business-day instant a to what call b returned for
\* a.addBusinessDays(n, H), with the same H
CountsBack(c, b) ==
    /\ calls[c].op = "diffBusinessDays"
    /\ calls[b].op = "addBusinessDays" /\ ~calls[b].threw
    /\ calls[b].recv = calls[c].recv /\ calls[b].ret = calls[c].other
    /\ calls[b].holidays = calls[c].holidays
    /\ ~objs[calls[c].recv].d.nan
    /\ IsBusinessDate(LocalFields(host, objs[calls[c].recv].d).lday, calls[c].holidays)

\* C26: for a business-day instant a, a.diffBusinessDays(a.addBusinessDays(n,
\* H), H) is n
C26_DiffBusinessDaysInvertsAdd ==
    \A c \in DOMAIN calls : \A b \in DOMAIN calls :
        CountsBack(c, b) => calls[c].number = calls[b].value

(***************************************************************************)
(* index.js clone and locale, timezone.js tzChainable (toTz).  Each hands  *)
(* ctx._d, a Date, to the factory.  The timezone module keeps its own      *)
(* formatter cache, a Map from locale and options to the formatter, here   *)
(* the keys (locale, zone) in insertion order.                             *)
(***************************************************************************)
MAX_CACHE_SIZE == 500

RangeError == [name |-> "RangeError", input |-> Undef]

clone(h, cfg, ctx) == Effect(ctx, nano(h, cfg, DateInput(ctx.d), ctx.l))

locale(h, cfg, ctx, newLocale) == Effect(ctx, nano(h, cfg, DateInput(ctx.d), newLocale))

\* the IANA zone names Intl knows, among those used here
KnownZones == {"America/New_York", "Asia/Kolkata", "UTC"}

\* getCachedFormatter(locale, {timeZone, ...}) of the timezone module: the
\* cache after the call; new Intl.DateTimeFormat throws RangeError for a
\* tag or a zone it does not accept, after the eviction
getCachedFormatter(cache, loc, timezone) ==
    IF \E i \in DOMAIN cache : cache[i] = <<loc, timezone>>
    THEN [threw |-> FALSE, cache |-> cache]
    ELSE IF ~IntlValid(LocaleChars(loc)) \/ timezone \notin KnownZones
    THEN [threw |-> TRUE,
          cache |-> IF Len(cache) >= MAX_CACHE_SIZE THEN Tail(cache) ELSE cache]
    ELSE [threw |-> FALSE,
          cache |-> Append(IF Len(cache) >= MAX_CACHE_SIZE THEN Tail(cache) ELSE cache,
                           <<loc, timezone>>)]

\* tzChainable(ctx, timezone): formatter.formatToParts(ctx._d) throws
\* RangeError on an invalid Date; then nanoFactory(ctx._d, locale)
tzChainable(h, cfg, ctx, timezone, formatter) ==
    IF formatter.threw \/ ctx.d.nan THEN Effect(ctx, Thrown(RangeError, ctx))
    ELSE Effect(ctx, nano(h, cfg, DateInput(ctx.d), getLocale(ctx)))

CloneCall(k) ==
    /\ Len(calls) < MaxCalls
    /\ k \in DOMAIN objs
    /\ MethodOutcome([NoCall EXCEPT !.op = "clone"], k,
                     clone(host, globalConfig, objs[k]))
    /\ UNCHANGED <<host, globalConfig, arg, caches, batches, durs>>

LocaleCall(k, newLocale) ==
    /\ Len(calls) < MaxCalls
    /\ k \in DOMAIN objs
    /\ MethodOutcome([NoCall EXCEPT !.op = "locale", !.locale = newLocale], k,
                     locale(host, globalConfig, objs[k], newLocale))
    /\ UNCHANGED <<host, globalConfig, arg, caches, batches, durs>>

ToTzCall(k, timezone) ==
    /\ Len(calls) < MaxCalls
    /\ k \in DOMAIN objs
    /\ caches' = [caches EXCEPT !.tzFormatterCache =
                      getCachedFormatter(@, getLocale(objs[k]), timezone).cache]
    /\ MethodOutcome([NoCall EXCEPT !.op = "toTz", !.text = <<timezone>>], k,
                     tzChainable(host, globalConfig, objs[k], timezone,
                                 getCachedFormatter(caches.tzFormatterCache,
                                                    getLocale(objs[k]), timezone)))
    /\ UNCHANGED <<host, globalConfig, arg, batches, durs>>

(***************************************************************************)
(* SpecCopy: an instant from a text that names a real date, a nonexistent  *)
(* date or no date at all, its copies by clone(), locale(L) and toTz(zone) *)
(* and the validity query on any of them.                                  *)
(***************************************************************************)
CopyTexts ==
    {DateText(2026, 1, 21), DateText(2026, 2, 30),
     DateText(2026, 4, 31) \o TimeText(10, 20, 30, 400),
     DateText(2024, 2, 29) \o TimeText(23, 59, 59, 999), Garbage}

CopyLocales == {"tr", "x|en"}

CopyZones == {"America/New_York", "Asia/Kolkata", "Mars/Olympus"}

InitCopy ==
    /\ InitWith({[NoArg EXCEPT !.text = t, !.locale = l, !.unit = z] :
                    t \in CopyTexts, l \in CopyLocales, z \in CopyZones})
    /\ host \in ArithHosts

NextCopy ==
    \/ NanoCall(arg.text, "undefined")
    \/ \E k \in DOMAIN objs : CloneCall(k)
    \/ \E k \in DOMAIN objs : LocaleCall(k, arg.locale)
    \/ \E k \in DOMAIN objs : ToTzCall(k, arg.unit)
    \/ \E k \in DOMAIN objs : IsValidCall(k)

SpecCopy == InitCopy /\ [][NextCopy]_vars

Copies == {"clone", "locale", "toTz"}

\* call c asks the validity of the copy that call b returned
ValidityOfCopy(c, b) ==
    /\ calls[c].op = "isValid"
    /\ calls[b].op \in Copies /\ ~calls[b].threw
    /\ calls[b].ret = calls[c].recv

\* C27: the copy that clone(), locale(L) or toTz(zone) returns reports the
\* isValid() of the instant it was made from
C27_CopiesKeepValidity ==
    \A c \in DOMAIN calls : \A b \in DOMAIN calls :
        ValidityOfCopy(c, b) => calls[c].result = isValid(host, objs[calls[b].recv])

(***************************************************************************)
(* utils.js: isSame and isBefore with a unit compare truncateToUnit of the *)
(* two Dates.  The number it returns is held as (high, low): an integer n  *)
(* as (n, 0), a time value as (day, ms).                                   *)
(***************************************************************************)
Truncated(n) == [nan |-> FALSE, high |-> n, low |-> 0]

\* (ts / unitMs) | 0 for a time value ts
Int32Of(ts, unitMs) == Int32Quotient(SignedDifference(ts, Zero), unitMs)

TruncateOf(h, date, f, u) ==
    CASE u = "year" -> Truncated(f.year)
      [] u = "month" -> Truncated(f.year * 12 + f.month)
      [] u = "day" ->
             Truncated(Int32Of(TimeValue(date.day, date.ms + h.tz * MS_PER_MINUTE),
                               MS_PER_DAY))
      [] u = "hour" -> Truncated(Int32Of(date, MS_PER_HOUR))
      [] u = "minute" -> Truncated(Int32Of(date, MS_PER_MINUTE))
      [] u = "second" -> Truncated(Int32Of(date, MS_PER_SECOND))
      [] OTHER -> [nan |-> FALSE, high |-> date.day, low |-> date.ms]

\* truncateToUnit(date, unit); of an invalid Date the fields and getTime()
\* are NaN, and NaN | 0 is 0
truncateToUnit(h, date, unit) ==
    IF ~date.nan
    THEN TruncateOf(h, date, LocalFields(h, date), utilsNormalizeUnit(unit))
    ELSE IF utilsNormalizeUnit(unit) \in {"day", "hour", "minute", "second"}
    THEN Truncated(0)
    ELSE [nan |-> TRUE, high |-> 0, low |-> 0]

\* x === y and x < y for two such numbers
SameNumber(x, y) == ~x.nan /\ ~y.nan /\ x.high = y.high /\ x.low = y.low

LessNumber(x, y) ==
    ~x.nan /\ ~y.nan /\ (x.high < y.high \/ (x.high = y.high /\ x.low < y.low))

\* isSame(ctx, other, unit) and isBefore(ctx, other, unit), unit given and
\* other a NanoDate
isSame(h, ctx, other, unit) ==
    SameNumber(truncateToUnit(h, ctx.d, unit), truncateToUnit(h, other.d, unit))

isBefore(h, ctx, other, unit) ==
    LessNumber(truncateToUnit(h, ctx.d, unit), truncateToUnit(h, other.d, unit))

IsSameCall(k, j, unit) ==
    /\ Len(calls) < MaxCalls
    /\ k \in DOMAIN objs /\ j \in DOMAIN objs
    /\ calls' = Append(calls, [NoCall EXCEPT !.op = "isSame", !.recv = k, !.other = j,
                                  !.unit = unit,
                                  !.result = isSame(host, objs[k], objs[j], unit)])
    /\ UNCHANGED <<host, globalConfig, objs, arg, caches, batches, durs>>

IsBeforeCall(k, j, unit) ==
    /\ Len(calls) < MaxCalls
    /\ k \in DOMAIN objs /\ j \in DOMAIN objs
    /\ calls' = Append(calls, [NoCall EXCEPT !.op = "isBefore", !.recv = k, !.other = j,
                                  !.unit = unit,
                                  !.result = isBefore(host, objs[k], objs[j], unit)])
    /\ UNCHANGED <<host, globalConfig, objs, arg, caches, batches, durs>>

(***************************************************************************)
(* SpecSame: two instants in the same hour, week or quarter, around the    *)
(* epoch and after 2038, compared at one unit of startOf.                  *)
(***************************************************************************)
SameTexts ==
    {DateText(2026, 1, 21) \o TimeText(10, 20, 30, 400),
     DateText(2026, 1, 21) \o TimeText(10, 40, 30, 900),
     DateText(2026, 1, 23) \o TimeText(8, 0, 0, 0),
     DateText(2026, 3, 31) \o TimeText(23, 59, 59, 999),
     DateText(1969, 12, 31) \o TimeText(23, 59, 59, 500) \o <<"Z">>,
     DateText(1970, 1, 1) \o TimeText(0, 0, 0, 500) \o <<"Z">>,
     DateText(2040, 1, 1) \o TimeText(0, 0, 0, 0)}

SameUnits ==
    {"year", "quarter", "M", "week", "isoWeek", "days", "hour", "minute", "s"}

InitSame ==
    /\ InitWith([text : SameTexts, other : SameTexts, unit : SameUnits])
    /\ host \in ArithHosts

NextSame ==
    \/ NanoCall(arg.text, "undefined")
    \/ NanoCall(arg.other, "undefined")
    \/ \E k, j \in DOMAIN objs : IsSameCall(k, j, arg.unit)
    \/ \E k, j \in DOMAIN objs : IsBeforeCall(k, j, arg.unit)

SpecSame == InitSame /\ [][NextSame]_vars

\* startOf(objs[k], unit) as a time value
StartOfInstant(k, unit) == StartOfDate(host, objs[k].d, normalizeUnit(unit))

\* C29: a.isSame(b, u) exactly when startOf(a, u) and startOf(b, u) are the
\* same instant, and a.isBefore(b, u) exactly when startOf(a, u) is earlier
\* than startOf(b, u), for the units startOf accepts
C29_ComparesStartOfUnit ==
    \A c \in DOMAIN calls :
        /\ calls[c].op = "isSame"
           => (calls[c].result
                 <=> StartOfInstant(calls[c].recv, calls[c].unit)
                        = StartOfInstant(calls[c].other, calls[c].unit))
        /\ calls[c].op = "isBefore"
           => (calls[c].result
                 <=> Earlier(StartOfInstant(calls[c].recv, calls[c].unit),
                             StartOfInstant(calls[c].other, calls[c].unit)))

====
